---- MODULE Spec2Model ----
(***************************************************************************)
(* Model of the Notion RAG retrieval core of personal-ai-agent             *)
(* (mcp-notion-rag/src/services/notionRagService.ts), of its HTTP route    *)
(* (mcp-notion-rag/src/routes/searchKnowledgeRoute.ts), of the agent      *)
(* (agent/src/agentCore.ts: runAgent and its context rendering) and of     *)
(* the speech bridge (tts-bridge/src/services).                            *)
(*                                                                         *)
(* Strings are sequences of UTF-16 code units (integers), so that the      *)
(* ASCII test, the separator class, lower-casing and the 32-hex test are   *)
(* computed on the characters themselves.                                  *)
(***************************************************************************)
EXTENDS Integers, Sequences, FiniteSets, TLC

(***************************************************************************)
(* Generic sequence helpers (JavaScript Array / String primitives).        *)
(***************************************************************************)

Min(a, b) == IF a <= b THEN a ELSE b

\* Array.prototype.slice(0, n) / the first n elements.
Take(s, n) == SubSeq(s, 1, Min(n, Len(s)))

Last(s) == s[Len(s)]

RECURSIVE FlattenSeq(_)
\* Array.prototype.flat / flatMap: concatenation of a sequence of sequences.
FlattenSeq(ss) == IF ss = <<>> THEN <<>> ELSE Head(ss) \o FlattenSeq(Tail(ss))

RECURSIVE JoinWith(_, _)
\* Array.prototype.join(sep) on a sequence of strings.
JoinWith(ss, sep) ==
  IF ss = <<>> THEN <<>>
  ELSE IF Len(ss) = 1 THEN ss[1]
  ELSE ss[1] \o sep \o JoinWith(Tail(ss), sep)

\* String.prototype.includes: needle occurs as a contiguous substring.
Includes(text, needle) ==
  \E i \in 1..(Len(text) - Len(needle) + 1) :
    SubSeq(text, i, i + Len(needle) - 1) = needle

RECURSIVE SplitCharFrom(_, _, _, _, _)
SplitCharFrom(s, c, i, cur, acc) ==
  IF i > Len(s) THEN Append(acc, cur)
  ELSE IF s[i] = c THEN SplitCharFrom(s, c, i + 1, <<>>, Append(acc, cur))
  ELSE SplitCharFrom(s, c, i + 1, Append(cur, s[i]), acc)

\* String.prototype.split(c) for a one-character string separator c:
\* every occurrence splits, empty pieces are kept.
SplitChar(s, c) == SplitCharFrom(s, c, 1, <<>>, <<>>)

(***************************************************************************)
(* Character classes.                                                      *)
(***************************************************************************)

\* ECMAScript WhiteSpace + LineTerminator: the class \s and what trim() strips.
WhiteSpace ==
  {9, 10, 11, 12, 13, 32, 160, 5760, 8232, 8233, 8239, 8287, 12288, 65279}
    \cup (8192..8202)

\* The particles and punctuation of the separator class of extractKeywords:
\* の を が は へ に で と 、 。 ？ ！
Particles ==
  {12398, 12434, 12364, 12399, 12408, 12395, 12391, 12392,
   12289, 12290, 65311, 65281}

\* Mutant: the separator class has lost its \s.
IsSeparator_NoWhitespace(c) == c \in Particles

IsSeparator(c) == c \in Particles \/ c \in WhiteSpace

\* /[^\x00-\x7F]/.test(query)
hasNonAscii(q) == \E i \in 1..Len(q) : q[i] > 127

\* One code unit of String.prototype.toLowerCase (ASCII, Latin-1 and
\* full-width capitals; kana and kanji have no case).
LowerChar(c) ==
  IF c \in 65..90 THEN c + 32
  ELSE IF c \in 192..222 /\ c # 215 THEN c + 32
  ELSE IF c \in 65313..65338 THEN c + 32
  ELSE c

toLowerCase(s) == [i \in 1..Len(s) |-> LowerChar(s[i])]

\* [a-f0-9] under the i flag.
IsHexChar(c) == c \in 48..57 \/ c \in 97..102 \/ c \in 65..70

RECURSIVE TrimLeft(_)
TrimLeft(s) ==
  IF s # <<>> /\ Head(s) \in WhiteSpace THEN TrimLeft(Tail(s)) ELSE s

RECURSIVE TrimRight(_)
TrimRight(s) ==
  IF s # <<>> /\ Last(s) \in WhiteSpace
  THEN TrimRight(SubSeq(s, 1, Len(s) - 1)) ELSE s

\* String.prototype.trim
trim(s) == TrimRight(TrimLeft(s))

(***************************************************************************)
(* extractDatabaseIdFromUrl (notionRagService.ts 27-69).                   *)
(* NoId stands for the null return.                                        *)
(***************************************************************************)

NoId == <<"null">>

IdLen == 32

\* /^[a-f0-9]{32}$/i.test(s)
IsHex32(s) == Len(s) = IdLen /\ \A i \in 1..Len(s) : IsHexChar(s[i])

\* Mutant: the pattern has lost its anchors, /[a-f0-9]{32}/i.
extractDatabaseIdFromUrl_Unanchored(url) ==
  LET HasHexRun(t) ==
        \E i \in 1..(Len(t) - IdLen + 1) : IsHex32(SubSeq(t, i, i + IdLen - 1))
  IN
  IF url = <<>> THEN NoId
  ELSE
    LET parts        == SplitChar(url, 47)
        lastPart     == Last(parts)
    IN  IF lastPart = <<>> THEN NoId
        ELSE
          LET withoutQuery == SplitChar(lastPart, 63)[1]
              segments     == SplitChar(withoutQuery, 45)
              idCandidate  == Last(segments)
          IN  IF idCandidate # <<>> /\ HasHexRun(idCandidate) THEN idCandidate
              ELSE IF withoutQuery # <<>> /\ HasHexRun(withoutQuery)
                   THEN withoutQuery
              ELSE NoId

extractDatabaseIdFromUrl(url) ==
  IF url = <<>> THEN NoId
  ELSE
    LET parts        == SplitChar(url, 47)           \* url.split('/')
        lastPart     == Last(parts)
    IN  IF lastPart = <<>> THEN NoId
        ELSE
          LET withoutQuery == SplitChar(lastPart, 63)[1]   \* split('?')[0]
              segments     == SplitChar(withoutQuery, 45)  \* split('-')
              idCandidate  == Last(segments)
          IN  IF idCandidate # <<>> /\ IsHex32(idCandidate) THEN idCandidate
              ELSE IF withoutQuery # <<>> /\ IsHex32(withoutQuery)
                   THEN withoutQuery
              ELSE NoId

(***************************************************************************)
(* extractKeywords (notionRagService.ts 424-456).                          *)
(***************************************************************************)

RECURSIVE SplitSepFrom(_, _, _, _, _)
SplitSepFrom(s, i, cur, acc, inSep) ==
  IF i > Len(s) THEN Append(acc, cur)
  ELSE IF IsSeparator(s[i])
       THEN IF inSep THEN SplitSepFrom(s, i + 1, cur, acc, TRUE)
            ELSE SplitSepFrom(s, i + 1, <<>>, Append(acc, cur), TRUE)
  ELSE SplitSepFrom(s, i + 1, Append(cur, s[i]), acc, FALSE)

\* query.split(/[のをがはへにでと、。？！\s]+/): a run of separators is one
\* separator; a leading or trailing run leaves an empty piece.
SplitSeparators(s) == SplitSepFrom(s, 1, <<>>, <<>>, FALSE)

\* 教えて ください お願い します ある いる する なる くれ ほしい 見せて
\* 知りたい たい ます です
excludeWords ==
  { <<25945, 12360, 12390>>, <<12367, 12384, 12373, 12356>>,
    <<12362, 39000, 12356>>, <<12375, 12414, 12377>>, <<12354, 12427>>,
    <<12356, 12427>>, <<12377, 12427>>, <<12394, 12427>>, <<12367, 12428>>,
    <<12411, 12375, 12356>>, <<35211, 12379, 12390>>,
    <<30693, 12426, 12383, 12356>>, <<12383, 12356>>, <<12414, 12377>>,
    <<12391, 12377>> }

\* Mutant: the excluded words are not removed.
KeepToken_NoExclusion(token) == ~(Len(token) <= 1)

\* Mutant: the length test is missing.
KeepToken_NoLengthTest(token) == token \notin excludeWords

\* The second filter: tokens of length <= 1 and excluded words are dropped.
KeepToken(token) == ~(Len(token) <= 1) /\ token \notin excludeWords

\* The first filter: (t) => t.length > 0.
NonEmptyToken(t) == Len(t) > 0

Tokenize(q) == SelectSeq(SplitSeparators(q), NonEmptyToken)

extractKeywords(q) == SelectSeq(Tokenize(q), KeepToken)

(***************************************************************************)
(* Record Normalizer (notionRagService.ts 568-666).                        *)
(*                                                                         *)
(* A raw page is [id, hasProps, url, props]: hasProps is 'properties' in   *)
(* page; props is the properties object in key order, each entry           *)
(* [type, texts] where texts are the plain_text pieces of a title or       *)
(* rich_text, the names of a multi_select, or zero or one string for a     *)
(* url / select (zero = null).                                             *)
(***************************************************************************)

NoTitle == <<40, 110, 111, 32, 116, 105, 116, 108, 101, 41>>   \* "(no title)"

IsTitleProp(prop) == prop.type = "title"

\* Mutant: the || '(no title)' after the join is missing.
extractTitleFromPage_NoPlaceholder(page) ==
  LET titles == SelectSeq(page.props, IsTitleProp)
  IN  IF titles = <<>> THEN NoTitle ELSE FlattenSeq(titles[1].texts)

\* Object.values(page.properties).find(prop => prop.type === 'title'), then
\* property.title.map(t => t.plain_text).join('') || '(no title)'.
extractTitleFromPage(page) ==
  LET titles == SelectSeq(page.props, IsTitleProp)
  IN  IF titles = <<>> THEN NoTitle
      ELSE LET text == FlattenSeq(titles[1].texts)
           IN  IF text = <<>> THEN NoTitle ELSE text

\* The text one property contributes to parts (<<>> = nothing pushed).
PropParts(prop) ==
  LET text ==
        CASE prop.type = "title"        -> FlattenSeq(prop.texts)
          [] prop.type = "rich_text"    -> FlattenSeq(prop.texts)
          [] prop.type = "url"          -> FlattenSeq(prop.texts)
          [] prop.type = "select"       -> FlattenSeq(prop.texts)
          [] prop.type = "multi_select" -> JoinWith(prop.texts, <<32>>)
          [] OTHER                      -> <<>>
  IN  IF trim(text) # <<>> THEN <<text>> ELSE <<>>

RECURSIVE CollectParts(_)
\* for (const key of Object.keys(props)) { ... parts.push(...) }
CollectParts(props) ==
  IF props = <<>> THEN <<>>
  ELSE PropParts(Head(props)) \o CollectParts(Tail(props))

\* Mutant: the parts are joined without .map((s) => s.trim()).
buildPageContent_Untrimmed(page) == JoinWith(CollectParts(page.props), <<10>>)

buildPageContent(page) ==
  LET parts   == CollectParts(page.props)
      trimmed == [i \in 1..Len(parts) |-> trim(parts[i])]
  IN  JoinWith(SelectSeq(trimmed, NonEmptyToken), <<10>>)

\* Object.values(undefined) in extractTitleFromPage raises a TypeError when
\* the page has no properties container.
MapThrows(page) == ~page.hasProps

mapNotionPageToSearchResult(page, config) ==
  [ source       |-> "notion",
    databaseId   |-> config.databaseId,
    pageId       |-> page.id,
    title        |-> extractTitleFromPage(page),
    content      |-> buildPageContent(page),
    url          |-> page.url,
    databaseName |-> config.databaseName,
    usageHint    |-> config.usageHint ]

(***************************************************************************)
(* Source Registry Loader: the body of loadDatabaseConfigs after the       *)
(* configuration-store query has answered (notionRagService.ts 170-229).   *)
(*                                                                         *)
(* A configuration page is [hasProps, nameTitle, url, enabled, usageHint]: *)
(* nameTitle is the Name title's plain_text pieces, usageHint its          *)
(* rich_text pieces.                                                       *)
(***************************************************************************)

Unknown == <<85, 110, 107, 110, 111, 119, 110>>   \* 'Unknown'

ConfigName(page) ==
  IF Len(page.nameTitle) > 0 THEN page.nameTitle[1] ELSE Unknown

ConfigOf(page) ==
  [ databaseId   |-> extractDatabaseIdFromUrl(page.url),
    databaseName |-> ConfigName(page),
    usageHint    |-> FlattenSeq(page.usageHint) ]

RECURSIVE BuildConfigs_StopAtBad(_)
\* Mutant: a record without an identifier ends the loop (break for continue).
BuildConfigs_StopAtBad(pages) ==
  IF pages = <<>> THEN <<>>
  ELSE LET page == Head(pages)
           rest == BuildConfigs_StopAtBad(Tail(pages))
       IN  IF ~page.hasProps THEN rest
           ELSE IF ~page.enabled THEN rest
           ELSE IF extractDatabaseIdFromUrl(page.url) = NoId THEN <<>>
           ELSE <<ConfigOf(page)>> \o rest

RECURSIVE BuildConfigs(_)
\* for (const page of response.results) { ... continue ... configs.push }
BuildConfigs(pages) ==
  IF pages = <<>> THEN <<>>
  ELSE LET page == Head(pages)
           rest == BuildConfigs(Tail(pages))
       IN  IF ~page.hasProps THEN rest
           ELSE IF ~page.enabled THEN rest
           ELSE IF extractDatabaseIdFromUrl(page.url) = NoId THEN rest
           ELSE <<ConfigOf(page)>> \o rest

(***************************************************************************)
(* Fallback matching: the loop body of fallbackSearchAllPages              *)
(* (notionRagService.ts 504-548).                                          *)
(***************************************************************************)

\* [databaseName, usageHint, title, content].filter(non-empty).join('\n')
fullTextForSearch(result) ==
  JoinWith(SelectSeq(<<result.databaseName, result.usageHint,
                       result.title, result.content>>, NonEmptyToken), <<10>>)

\* Mutant: only the page content is searched, as before the source name,
\* usage hint and title were added to the searched text.
hitCount_ContentOnly(result, kws) ==
  LET lowerText == toLowerCase(result.content)
      Hit(kw)   == kw # <<>> /\ Includes(lowerText, toLowerCase(kw))
  IN  Len(SelectSeq(kws, Hit))

\* keywords.filter(kw => kw && lowerText.includes(kw.toLowerCase())).length
hitCount(result, kws) ==
  LET lowerText == toLowerCase(fullTextForSearch(result))
      Hit(kw)   == kw # <<>> /\ Includes(lowerText, toLowerCase(kw))
  IN  Len(SelectSeq(kws, Hit))

\* Mutant: a page is pushed only when every keyword hits it.
MatchPages_AllKeywords(pages, config, kws) ==
  LET Pushed(page) ==
        /\ page.hasProps
        /\ hitCount(mapNotionPageToSearchResult(page, config), kws) >= Len(kws)
        /\ hitCount(mapNotionPageToSearchResult(page, config), kws) >= 1
      kept == SelectSeq(pages, Pushed)
  IN  [i \in 1..Len(kept) |-> mapNotionPageToSearchResult(kept[i], config)]

\* for (const page of response.results): pages without properties are
\* skipped, the others are normalized and pushed when hitCount >= 1.
MatchPages(pages, config, kws) ==
  LET Pushed(page) ==
        /\ page.hasProps
        /\ hitCount(mapNotionPageToSearchResult(page, config), kws) >= 1
      kept == SelectSeq(pages, Pushed)
  IN  [i \in 1..Len(kept) |-> mapNotionPageToSearchResult(kept[i], config)]

(***************************************************************************)
(* Primary result mapping (notionRagService.ts 323-327).                   *)
(***************************************************************************)

\* Mutant: the per-source lists are appended as the queries complete.
MapAllResults_ArrivalOrder(cfgs, resps, order) ==
  FlattenSeq([k \in 1..Len(order) |->
    [j \in 1..Len(resps[order[k]]) |->
       mapNotionPageToSearchResult(resps[order[k]][j], cfgs[order[k]])]])

\* allResults.flatMap(({config, results}) => results.map(page => map(page, config)))
\* Promise.all keeps the order of configs, whatever the completion order.
MapAllResults(cfgs, resps, order) ==
  FlattenSeq([i \in 1..Len(cfgs) |->
    [j \in 1..Len(resps[i]) |-> mapNotionPageToSearchResult(resps[i][j], cfgs[i])]])

\* Some page of some response makes the mapping throw.
MappingThrows(resps) ==
  \E i \in 1..Len(resps) : \E j \in 1..Len(resps[i]) : MapThrows(resps[i][j])

(***************************************************************************)
(* The environment: the configuration store, two knowledge sources and the *)
(* queries a caller may send.                                              *)
(***************************************************************************)

MaxConfigs == 2      \* records in one configuration-store answer
MatchWindow == 6     \* a title query matches the first k <= MatchWindow records

PrimaryPageSize == 5
FallbackPageSize == 100

\* "4f1a2b3c4d5e6f7a8b9c0d1e2f3a4b5c"
IdA ==
  <<52, 102, 49, 97, 50, 98, 51, 99, 52, 100, 53, 101, 54, 102, 55, 97, 56,
    98, 57, 99, 48, 100, 49, 101, 50, 102, 51, 97, 52, 98, 53, 99>>

\* "0123456789abcdef0123456789ABCDEF"
IdB ==
  <<48, 49, 50, 51, 52, 53, 54, 55, 56, 57, 97, 98, 99, 100, 101, 102, 48,
    49, 50, 51, 52, 53, 54, 55, 56, 57, 65, 66, 67, 68, 69, 70>>

\* "https://host/Name-4f1a2b3c4d5e6f7a8b9c0d1e2f3a4b5c?v=1"
UrlA == <<104, 116, 116, 112, 115, 58, 47, 47, 104, 111, 115, 116, 47, 78, 97, 109, 101, 45>> \o IdA \o <<63, 118, 61, 49>>

\* "https://www.notion.so/0123456789abcdef0123456789ABCDEF"
UrlB ==
  <<104, 116, 116, 112, 115, 58, 47, 47, 119, 119, 119, 46, 110, 111, 116,
    105, 111, 110, 46, 115, 111, 47>> \o IdB

\* "https://host/Name-xyz"
UrlBad ==
  <<104, 116, 116, 112, 115, 58, 47, 47, 104, 111, 115, 116, 47, 78, 97,
    109, 101, 45, 120, 121, 122>>

Manga == <<28459, 30011>>     \* "漫画"
Memo == <<109, 101, 109, 111>>   \* "memo"

\* The configuration-store records an answer is drawn from: source A (named
\* 漫画, no usage hint), source B (named memo, hint "notes"), a disabled
\* record, an enabled record without an identifier in its URL and without a
\* Name, and a partial page object.
CfgA ==
  [hasProps |-> TRUE, nameTitle |-> <<Manga>>, url |-> UrlA, enabled |-> TRUE,
   usageHint |-> <<>>]

CfgB ==
  [hasProps |-> TRUE, nameTitle |-> <<Memo, <<50>>>>, url |-> UrlB,
   enabled |-> TRUE, usageHint |-> <<<<110, 111>>, <<116, 101, 115>>>>]

CfgOff ==
  [hasProps |-> TRUE, nameTitle |-> <<Memo>>, url |-> UrlB, enabled |-> FALSE,
   usageHint |-> <<>>]

CfgBad ==
  [hasProps |-> TRUE, nameTitle |-> <<>>, url |-> UrlBad, enabled |-> TRUE,
   usageHint |-> <<>>]

CfgPartial ==
  [hasProps |-> FALSE, nameTitle |-> <<>>, url |-> <<>>, enabled |-> FALSE,
   usageHint |-> <<>>]

ConfigPages == {CfgA, CfgB, CfgOff, CfgBad, CfgPartial}

RECURSIVE SeqsUpTo(_, _)
\* All sequences over S of length at most n.
SeqsUpTo(S, n) ==
  IF n = 0 THEN {<<>>}
  ELSE LET shorter == SeqsUpTo(S, n - 1)
       IN  shorter \cup {Append(s, x) : s \in shorter, x \in S}

ConfigResponses == SeqsUpTo(ConfigPages, MaxConfigs)

Prop(type, texts) == [type |-> type, texts |-> texts]

Page(id, props) == [id |-> id, hasProps |-> TRUE, url |-> <<id>>, props |-> props]

PartialPage(id) == [id |-> id, hasProps |-> FALSE, url |-> <<id>>, props |-> <<>>]

\* Source A: "ワンピース" (title only), a partial page object, and a record
\* whose free text "AI memo " precedes an empty title.
PagesA ==
  << Page(1, <<Prop("title", <<<<12527, 12531, 12500, 12540, 12473>>>>)>>),
     PartialPage(2),
     Page(3, <<Prop("rich_text", <<<<65, 73, 32>>, <<109, 101, 109, 111, 32>>>>),
               Prop("number", <<>>),
               Prop("title", <<>>)>>) >>

\* Source B: "AI" tagged 漫画, "diary", fillers "x", and one record more
\* than a fallback page holds, titled 漫画.
PageB(i) ==
  IF i = 1 THEN Page(101, <<Prop("title", <<<<65>>, <<73>>>>),
                            Prop("select", <<Manga>>),
                            Prop("url", <<>>)>>)
  ELSE IF i = 2 THEN Page(102, <<Prop("title", <<<<100, 105, 97, 114, 121>>>>),
                                 Prop("multi_select", <<<<97>>, <<98>>>>)>>)
  ELSE IF i = FallbackPageSize + 1
       THEN Page(100 + i, <<Prop("title", <<Manga>>)>>)
  ELSE Page(100 + i, <<Prop("title", <<<<120>>>>)>>)

PagesB == [i \in 1..(FallbackPageSize + 1) |-> PageB(i)]

Database(id) == IF id = IdA THEN PagesA ELSE PagesB

\* The answers a source may give to a title query with the given page_size:
\* its first k records match, and at most pageSize of them are returned.
PrimaryAnswers(id, pageSize) ==
  { Take(Take(Database(id), k), pageSize) :
      k \in 0..Min(MatchWindow, Len(Database(id))) }

\* The answer to an enumeration query: the first page of the source.
FallbackAnswer(id, pageSize) == Take(Database(id), pageSize)

\* "ai", "漫画", "AIの漫画", "教えて", "titleを教えて"
Queries ==
  { <<97, 105>>, Manga, <<65, 73, 12398, 28459, 30011>>,
    <<25945, 12360, 12390>>,
    <<116, 105, 116, 108, 101, 12434, 25945, 12360, 12390>> }

(***************************************************************************)
(* State of one searchKnowledge call, of the function harnesses, of one    *)
(* POST /search_knowledge request and of one context assembly.             *)
(***************************************************************************)

VARIABLES
  pc,               \* position of the call: idle, loading, loaded, primary,
                    \* fallback, done, failed
  query,            \* the query argument
  cfgResponse,      \* what the configuration store answered (while loaded)
  loadResult,       \* what loadDatabaseConfigs returned or threw (while loaded)
  configs,          \* const configs
  primState,        \* per source: inflight, ok, failed
  primResp,         \* per source: response.results of its title query
  arrival,          \* source indexes in the order their title queries settled
  keywords,         \* const keywords of fallbackSearchAllPages
  fbIndex,          \* the source the fallback loop is waiting for
  fbState,          \* per scanned source: ok, failed
  allMatchedPages,  \* const allMatchedPages
  requests,         \* queries issued to Notion by this call, in order
  outcome,          \* none, ok (returned), error (threw)
  results,          \* response.results of the returned value
  error,            \* message of the thrown Error, as its chain of prefixes
  kwIn, kwOut,      \* extractKeywords harness: argument and return value
  kwAgain,          \* extractKeywords of the space-joined kwOut
  urlIn, urlOut,    \* extractDatabaseIdFromUrl harness
  normIn, normOut,  \* mapNotionPageToSearchResult harness: page and outcome
  accIn, accOut,    \* fallback acceptance harness: keyword lists and matches
  routeBody,        \* req.body of a POST /search_knowledge request
  routePc,          \* position of the route handler: idle, received,
                    \* awaiting, responded
  coreCalls,        \* arguments of the searchKnowledge calls the handler made
  routeResponse,    \* status and kind of body the handler answered with
  ctxIn, ctxOut,    \* runAgent's context rendering: result lists and prompt
  history,          \* successive calls of searchKnowledge: whether a call
                    \* has returned before, and the sources the last one
                    \* queried
  agentPc,          \* position of runAgent: idle, searching, generating,
                    \* returned, thrown
  agentQuestion,    \* runAgent's question argument
  mode,             \* options.mode (mode unset: no options.mode)
  searchQuery,      \* const searchQuery
  notionCall,       \* the callNotionSearch call: state, query, results, error
  webCall,          \* the callWebSearch call
  settled,          \* the searches in the order they answered or failed
  llmCalls,         \* the prompts callLlm was called with
  agentResult,      \* what runAgent returned or threw
  ttsPc,            \* per request of the speech bridge: where its handler is
  ttsRoute,         \* per request: speak or ask_and_speak
  ttsText,          \* per request: the text to be spoken (0: not known yet)
  ttsStatus,        \* per request: status of the response (0: none yet)
  microtasks,       \* the microtask queue: requests whose continuation is
                    \* ready, in order
  voiceFile,        \* content of voice.wav: who wrote it, speech of which text
  played            \* per request: what audioPlayer.play played for it

searchVars ==
  <<pc, query, cfgResponse, loadResult, configs, primState, primResp, arrival,
    keywords, fbIndex, fbState, allMatchedPages, requests, outcome, results,
    error>>

kwVars == <<kwIn, kwOut, kwAgain>>

urlVars == <<urlIn, urlOut>>

normVars == <<normIn, normOut>>

accVars == <<accIn, accOut>>

routeVars == <<routeBody, routePc, coreCalls, routeResponse>>

ctxVars == <<ctxIn, ctxOut>>

histVars == <<history>>

agentVars ==
  <<agentPc, agentQuestion, mode, searchQuery, notionCall, webCall, settled,
    llmCalls, agentResult>>

helperVars == <<kwVars, urlVars, normVars, accVars, routeVars, ctxVars>>

ttsVars ==
  <<ttsPc, ttsRoute, ttsText, ttsStatus, microtasks, voiceFile, played>>

outerVars == <<histVars, agentVars, ttsVars>>

harnessVars == <<helperVars, outerVars>>

vars == <<searchVars, harnessVars>>

NoResponse == [kind |-> "none", results |-> <<>>]

NoLoadResult == [kind |-> "none", configs |-> <<>>, error |-> <<>>]

NotRun == [done |-> FALSE, value |-> <<>>]

\* process.env.NOTION_CONFIG_DATABASE_ID
configDatabaseId == <<99, 102, 103>>

ConfigRequest  == [kind |-> "config", db |-> configDatabaseId, page_size |-> 0]

TitleRequest(config) ==
  [kind |-> "title", db |-> config.databaseId, page_size |-> PrimaryPageSize]

AllRequest(config) ==
  [kind |-> "all", db |-> config.databaseId, page_size |-> FallbackPageSize]

SearchInit ==
  /\ pc = "idle"
  /\ query = <<>>
  /\ cfgResponse = NoResponse
  /\ loadResult = NoLoadResult
  /\ configs = <<>>
  /\ primState = <<>>
  /\ primResp = <<>>
  /\ arrival = <<>>
  /\ keywords = <<>>
  /\ fbIndex = 0
  /\ fbState = <<>>
  /\ allMatchedPages = <<>>
  /\ requests = <<>>
  /\ outcome = "none"
  /\ results = <<>>
  /\ error = <<>>

\* The query member of a request body: its typeof, its truthiness when it is
\* not a string, and its characters when it is one. A body without the
\* member has typeof undefined.
NoBody == [type |-> "undefined", truthy |-> FALSE, value |-> <<>>]

NoRouteResponse == [status |-> 0, body |-> "none"]

KeywordsIdle ==
  /\ kwIn = <<>>
  /\ kwOut = NotRun
  /\ kwAgain = NotRun

LocatorIdle ==
  /\ urlIn = <<>>
  /\ urlOut = NotRun

NormalizerIdle ==
  /\ normIn = <<>>
  /\ normOut = NotRun

AcceptanceIdle ==
  /\ accIn = <<>>
  /\ accOut = NotRun

RouteIdle ==
  /\ routeBody = NoBody
  /\ routePc = "idle"
  /\ coreCalls = <<>>
  /\ routeResponse = NoRouteResponse

ContextIdle ==
  /\ ctxIn = <<>>
  /\ ctxOut = NotRun

NoHistory == [calls |-> 0, sources |-> {}]

HistoryIdle == history = NoHistory

NoCall == [state |-> "none", query |-> <<>>, results |-> <<>>, error |-> "none"]

NoAgentResult == [kind |-> "none", answer |-> <<>>, error |-> "none"]

AgentIdle ==
  /\ agentPc = "idle"
  /\ agentQuestion = <<>>
  /\ mode = "unset"
  /\ searchQuery = <<>>
  /\ notionCall = NoCall
  /\ webCall = NoCall
  /\ settled = <<>>
  /\ llmCalls = <<>>
  /\ agentResult = NoAgentResult

MaxRequests == 2     \* requests the speech bridge is handling at a time

Requests == 1..MaxRequests

NoFile == [writer |-> 0, speech |-> 0]

BridgeIdle ==
  /\ ttsPc = [r \in Requests |-> "none"]
  /\ ttsRoute = [r \in Requests |-> "none"]
  /\ ttsText = [r \in Requests |-> 0]
  /\ ttsStatus = [r \in Requests |-> 0]
  /\ microtasks = <<>>
  /\ voiceFile = NoFile
  /\ played = [r \in Requests |-> NoFile]

OuterIdle == HistoryIdle /\ AgentIdle /\ BridgeIdle

HarnessIdle ==
  /\ OuterIdle
  /\ KeywordsIdle
  /\ LocatorIdle
  /\ NormalizerIdle
  /\ AcceptanceIdle
  /\ RouteIdle
  /\ ContextIdle

Init == SearchInit /\ HarnessIdle

(***************************************************************************)
(* searchKnowledge(query) is called: loadDatabaseConfigs issues the        *)
(* configuration-store query (notionRagService.ts 286-291, 155-168).       *)
(***************************************************************************)
Start(q) ==
  /\ pc = "idle"
  /\ pc' = "loading"
  /\ query' = q
  /\ requests' = <<ConfigRequest>>
  /\ UNCHANGED <<cfgResponse, loadResult, configs, primState, primResp,
                 arrival, keywords, fbIndex, fbState, allMatchedPages,
                 outcome, results, error>>
  /\ UNCHANGED harnessVars


\* Mutant: descriptors are kept across calls; after the first call a source
\* the service has not queried before is left out of the registry.
LoadResolve_KnownSourcesOnly(resp) ==
  /\ pc = "loading"
  /\ pc' = "loaded"
  /\ cfgResponse' = [kind |-> "ok", results |-> resp]
  /\ loadResult' =
       [kind |-> "ok",
        configs |-> IF history.calls = 0 THEN BuildConfigs(resp)
                    ELSE SelectSeq(BuildConfigs(resp),
                           LAMBDA c : c.databaseId \in history.sources),
        error |-> <<>>]
  /\ UNCHANGED <<query, configs, primState, primResp, arrival, keywords,
                 fbIndex, fbState, allMatchedPages, requests, outcome,
                 results, error>>
  /\ UNCHANGED harnessVars

(***************************************************************************)
(* The configuration store answers: loadDatabaseConfigs builds configs and *)
(* returns them (170-229).                                                 *)
(***************************************************************************)
LoadResolve(resp) ==
  /\ pc = "loading"
  /\ pc' = "loaded"
  /\ cfgResponse' = [kind |-> "ok", results |-> resp]
  /\ loadResult' =
       [kind |-> "ok", configs |-> BuildConfigs(resp), error |-> <<>>]
  /\ UNCHANGED <<query, configs, primState, primResp, arrival, keywords,
                 fbIndex, fbState, allMatchedPages, requests, outcome,
                 results, error>>
  /\ UNCHANGED harnessVars

(***************************************************************************)
(* The configuration-store query fails: loadDatabaseConfigs throws a new   *)
(* Error that prefixes the message (230-244).                              *)
(***************************************************************************)
\* Mutant: the catch block re-throws the error it caught.
LoadReject_Rethrow ==
  /\ pc = "loading"
  /\ pc' = "loaded"
  /\ cfgResponse' = [kind |-> "error", results |-> <<>>]
  /\ loadResult' =
       [kind |-> "error", configs |-> <<>>, error |-> <<"E_config">>]
  /\ UNCHANGED <<query, configs, primState, primResp, arrival, keywords,
                 fbIndex, fbState, allMatchedPages, requests, outcome,
                 results, error>>
  /\ UNCHANGED harnessVars

LoadReject ==
  /\ pc = "loading"
  /\ pc' = "loaded"
  /\ cfgResponse' = [kind |-> "error", results |-> <<>>]
  /\ loadResult' =
       [kind |-> "error", configs |-> <<>>,
        error |-> <<"ConfigLoadFailed", "E_config">>]
  /\ UNCHANGED <<query, configs, primState, primResp, arrival, keywords,
                 fbIndex, fbState, allMatchedPages, requests, outcome,
                 results, error>>
  /\ UNCHANGED harnessVars

\* Mutant: the empty-registry early return is missing.
NoSources_Never(cfgs) == FALSE

\* if (configs.length === 0)  (293)
NoSources(cfgs) == Len(cfgs) = 0

(***************************************************************************)
(* searchKnowledge resumes after await loadDatabaseConfigs() (291-320,     *)
(* 354-369): a thrown error is re-thrown with its own prefix, no configs   *)
(* returns the empty result, otherwise every title query is issued.        *)
(***************************************************************************)
AfterLoad ==
  /\ pc = "loaded"
  /\ cfgResponse' = NoResponse
  /\ loadResult' = NoLoadResult
  /\ IF loadResult.kind = "error"
     THEN /\ pc' = "failed"
          /\ outcome' = "error"
          /\ error' = <<"SearchFailed">> \o loadResult.error
          /\ UNCHANGED <<configs, primState, primResp, requests, results>>
     ELSE IF NoSources(loadResult.configs)
     THEN /\ pc' = "done"
          /\ outcome' = "ok"
          /\ results' = <<>>
          /\ UNCHANGED <<configs, primState, primResp, requests, error>>
     ELSE /\ pc' = "primary"
          /\ configs' = loadResult.configs
          /\ primState' = [i \in 1..Len(loadResult.configs) |-> "inflight"]
          /\ primResp' = [i \in 1..Len(loadResult.configs) |-> <<>>]
          /\ requests' = requests \o
               [i \in 1..Len(loadResult.configs) |->
                  TitleRequest(loadResult.configs[i])]
          /\ UNCHANGED <<outcome, results, error>>
  /\ UNCHANGED <<query, arrival, keywords, fbIndex, fbState, allMatchedPages>>
  /\ UNCHANGED harnessVars

\* Mutant: the fallback runs on every empty primary result.
ShouldFallback_AnyEmpty(mappedResults, q) == Len(mappedResults) = 0

\* Mutant: the ASCII test is inverted.
ShouldFallback_AsciiOnly(mappedResults, q) ==
  Len(mappedResults) = 0 /\ ~hasNonAscii(q)

\* if (mappedResults.length === 0 && hasNonAscii)  (333-335)
ShouldFallback(mappedResults, q) == Len(mappedResults) = 0 /\ hasNonAscii(q)

\* Mutant: the fallback issues the enumeration queries of all sources at
\* once, as the title queries are.
JoinPrimary_FanOut(resps, order) ==
  IF MappingThrows(resps)
  THEN /\ pc' = "failed"
       /\ outcome' = "error"
       /\ error' = <<"SearchFailed", "TypeError">>
       /\ UNCHANGED <<keywords, fbIndex, requests, results>>
  ELSE LET mappedResults == MapAllResults(configs, resps, order)
       IN  IF ShouldFallback(mappedResults, query)
           THEN /\ pc' = "fallback"
                /\ keywords' = extractKeywords(query)
                /\ fbIndex' = 1
                /\ requests' = requests \o
                     [i \in 1..Len(configs) |-> AllRequest(configs[i])]
                /\ UNCHANGED <<outcome, results, error>>
           ELSE /\ pc' = "done"
                /\ outcome' = "ok"
                /\ results' = mappedResults
                /\ UNCHANGED <<keywords, fbIndex, requests, error>>

\* Lines 322-353, run once Promise.all has resolved with resps.
JoinPrimary(resps, order) ==
  IF MappingThrows(resps)
  THEN /\ pc' = "failed"
       /\ outcome' = "error"
       /\ error' = <<"SearchFailed", "TypeError">>
       /\ UNCHANGED <<keywords, fbIndex, requests, results>>
  ELSE LET mappedResults == MapAllResults(configs, resps, order)
       IN  IF ShouldFallback(mappedResults, query)
           THEN /\ pc' = "fallback"
                /\ keywords' = extractKeywords(query)
                /\ fbIndex' = 1
                /\ requests' = Append(requests, AllRequest(configs[1]))
                /\ UNCHANGED <<outcome, results, error>>
           ELSE /\ pc' = "done"
                /\ outcome' = "ok"
                /\ results' = mappedResults
                /\ UNCHANGED <<keywords, fbIndex, requests, error>>

\* Mutant: the join is noticed only by the callback of the last source, so
\* it is missed when that source is not the last to answer.
PrimaryResolve_LastSourceJoins(i, answer) ==
  /\ pc \in {"primary", "failed"}
  /\ i \in 1..Len(primState)
  /\ primState[i] = "inflight"
  /\ primState' = [primState EXCEPT ![i] = "ok"]
  /\ arrival' = Append(arrival, i)
  /\ IF pc = "failed"
     THEN UNCHANGED <<pc, primResp, keywords, fbIndex, requests, outcome,
                      results, error>>
     ELSE /\ primResp' = [primResp EXCEPT ![i] = answer]
          /\ IF i = Len(primState)
                /\ \A j \in 1..Len(primState) : primState'[j] = "ok"
             THEN JoinPrimary(primResp', arrival')
             ELSE UNCHANGED <<pc, keywords, fbIndex, requests, outcome,
                              results, error>>
  /\ UNCHANGED <<query, cfgResponse, loadResult, configs, fbState,
                 allMatchedPages>>
  /\ UNCHANGED harnessVars

\* Mutant: the orchestrator goes on at the first answer (a race instead of
\* a join), the other sources counting as empty.
PrimaryResolve_FirstAnswer(i, answer) ==
  /\ pc \in {"primary", "failed"}
  /\ i \in 1..Len(primState)
  /\ primState[i] = "inflight"
  /\ primState' = [primState EXCEPT ![i] = "ok"]
  /\ arrival' = Append(arrival, i)
  /\ IF pc = "failed"
     THEN UNCHANGED <<pc, primResp, keywords, fbIndex, requests, outcome,
                      results, error>>
     ELSE /\ primResp' = [primResp EXCEPT ![i] = answer]
          /\ JoinPrimary(primResp', arrival')
  /\ UNCHANGED <<query, cfgResponse, loadResult, configs, fbState,
                 allMatchedPages>>
  /\ UNCHANGED harnessVars

(***************************************************************************)
(* The title query of source i answers (306-318).  When it is the last one *)
(* Promise.all resolves and searchKnowledge goes on (322-353).  After the  *)
(* call has failed the answer is dropped.                                  *)
(***************************************************************************)
PrimaryResolve(i, answer) ==
  /\ pc \in {"primary", "failed"}
  /\ i \in 1..Len(primState)
  /\ primState[i] = "inflight"
  /\ primState' = [primState EXCEPT ![i] = "ok"]
  /\ arrival' = Append(arrival, i)
  /\ IF pc = "failed"
     THEN UNCHANGED <<pc, primResp, keywords, fbIndex, requests, outcome,
                      results, error>>
     ELSE /\ primResp' = [primResp EXCEPT ![i] = answer]
          /\ IF \A j \in 1..Len(primState) : primState'[j] = "ok"
             THEN JoinPrimary(primResp', arrival')
             ELSE UNCHANGED <<pc, keywords, fbIndex, requests, outcome,
                              results, error>>
  /\ UNCHANGED <<query, cfgResponse, loadResult, configs, fbState,
                 allMatchedPages>>
  /\ UNCHANGED harnessVars

\* Mutant: the failure is swallowed inside the per-source callback.
PrimaryReject_Isolated(i) ==
  /\ pc \in {"primary", "failed"}
  /\ i \in 1..Len(primState)
  /\ primState[i] = "inflight"
  /\ primState' = [primState EXCEPT ![i] = "failed"]
  /\ arrival' = Append(arrival, i)
  /\ UNCHANGED <<pc, outcome, error>>
  /\ UNCHANGED <<query, cfgResponse, loadResult, configs, primResp, keywords,
                 fbIndex, fbState, allMatchedPages, requests, results>>
  /\ UNCHANGED harnessVars

(***************************************************************************)
(* The title query of source i fails: Promise.all rejects at the first     *)
(* failure and the catch block re-throws (301-320, 354-369).               *)
(***************************************************************************)
PrimaryReject(i) ==
  /\ pc \in {"primary", "failed"}
  /\ i \in 1..Len(primState)
  /\ primState[i] = "inflight"
  /\ primState' = [primState EXCEPT ![i] = "failed"]
  /\ arrival' = Append(arrival, i)
  /\ IF pc = "primary"
     THEN /\ pc' = "failed"
          /\ outcome' = "error"
          /\ error' = <<"SearchFailed", "E_title">>
     ELSE UNCHANGED <<pc, outcome, error>>
  /\ UNCHANGED <<query, cfgResponse, loadResult, configs, primResp, keywords,
                 fbIndex, fbState, allMatchedPages, requests, results>>
  /\ UNCHANGED harnessVars

\* The end of one iteration of the for loop of fallbackSearchAllPages: the
\* next source is queried, or the function returns and searchKnowledge
\* returns its value (491, 554-559, 337-345).
FallbackAdvance(matched) ==
  /\ allMatchedPages' = matched
  /\ IF fbIndex = Len(configs)
     THEN /\ pc' = "done"
          /\ outcome' = "ok"
          /\ results' = matched
          /\ UNCHANGED <<fbIndex, requests>>
     ELSE /\ fbIndex' = fbIndex + 1
          /\ requests' = Append(requests, AllRequest(configs[fbIndex + 1]))
          /\ UNCHANGED <<pc, outcome, results>>

(***************************************************************************)
(* The enumeration query of the current source answers (495-548).          *)
(***************************************************************************)
FallbackResolve ==
  /\ pc = "fallback"
  /\ LET config == configs[fbIndex]
         pages  == FallbackAnswer(config.databaseId, FallbackPageSize)
     IN  FallbackAdvance(allMatchedPages \o MatchPages(pages, config, keywords))
  /\ fbState' = Append(fbState, "ok")
  /\ UNCHANGED <<query, cfgResponse, loadResult, configs, primState, primResp,
                 arrival, keywords, error>>
  /\ UNCHANGED harnessVars

\* Mutant: a failed enumeration query is sent once more before the loop
\* goes on.
FallbackReject_Retry ==
  /\ pc = "fallback"
  /\ IF fbState # <<>> /\ fbState[Len(fbState)] = "failed"
     THEN FallbackAdvance(allMatchedPages)
     ELSE /\ requests' = Append(requests, AllRequest(configs[fbIndex]))
          /\ UNCHANGED <<pc, fbIndex, allMatchedPages, outcome, results>>
  /\ fbState' = Append(fbState, "failed")
  /\ UNCHANGED <<query, cfgResponse, loadResult, configs, primState, primResp,
                 arrival, keywords, error>>
  /\ UNCHANGED harnessVars

\* Mutant: break instead of continue, the loop ends at the first failure.
FallbackReject_Break ==
  /\ pc = "fallback"
  /\ pc' = "done"
  /\ outcome' = "ok"
  /\ results' = allMatchedPages
  /\ fbState' = Append(fbState, "failed")
  /\ UNCHANGED <<query, cfgResponse, loadResult, configs, primState, primResp,
                 arrival, keywords, fbIndex, allMatchedPages, requests, error>>
  /\ UNCHANGED harnessVars

(***************************************************************************)
(* The enumeration query of the current source fails: caught, logged, and  *)
(* the loop continues (549-553).                                           *)
(***************************************************************************)
FallbackReject ==
  /\ pc = "fallback"
  /\ FallbackAdvance(allMatchedPages)
  /\ fbState' = Append(fbState, "failed")
  /\ UNCHANGED <<query, cfgResponse, loadResult, configs, primState, primResp,
                 arrival, keywords, error>>
  /\ UNCHANGED harnessVars

(***************************************************************************)
(* The caller has its answer; the next call starts from a fresh frame.     *)
(***************************************************************************)
Return ==
  /\ pc \in {"done", "failed"}
  /\ pc' = "idle"
  /\ query' = <<>>
  /\ cfgResponse' = NoResponse
  /\ loadResult' = NoLoadResult
  /\ configs' = <<>>
  /\ primState' = <<>>
  /\ primResp' = <<>>
  /\ arrival' = <<>>
  /\ keywords' = <<>>
  /\ fbIndex' = 0
  /\ fbState' = <<>>
  /\ allMatchedPages' = <<>>
  /\ requests' = <<>>
  /\ outcome' = "none"
  /\ results' = <<>>
  /\ error' = <<>>
  /\ UNCHANGED harnessVars

Next ==
  \/ \E q \in Queries : Start(q)
  \/ \E resp \in ConfigResponses : LoadResolve(resp)
  \/ LoadReject
  \/ AfterLoad
  \/ \E i \in 1..Len(primState) :
       \E answer \in PrimaryAnswers(configs[i].databaseId, PrimaryPageSize) :
         PrimaryResolve(i, answer)
  \/ \E i \in 1..Len(primState) : PrimaryReject(i)
  \/ FallbackResolve
  \/ FallbackReject
  \/ Return

Spec == Init /\ [][Next]_vars

(***************************************************************************)
(* extractKeywords applied to every query over a small alphabet:           *)
(* の (particle), space, あ and る (ある is an excluded word), 漫, A, and   *)
(* to the example queries of the documentation.                            *)
(***************************************************************************)

MaxQueryLen == 5

KwAlphabet == {12398, 32, 12354, 12427, 28459, 65}

KwInputs == SeqsUpTo(KwAlphabet, MaxQueryLen)

\* The query of the documented fallback case 1: "おすすめの漫画を教えて".
Case1Query ==
  <<12362, 12377, 12377, 12417, 12398, 28459, 30011, 12434, 25945, 12360,
  12390>>

\* The rows of the documented keyword table, as [query, keywords]:
\*   映画のおすすめ教えて -> 映画, おすすめ
\*   今日は何をすればいい？ -> 今日, 何
\*   アニメの新作ある？ -> アニメ, 新作
\*   TypeScriptについて -> TypeScript, ついて
\*   パーソナルAIの進捗を教えて -> パーソナルAI, 進捗
DocumentedExamples ==
  { [query    |-> <<26144, 30011, 12398, 12362, 12377, 12377, 12417, 25945,
                  12360, 12390>>,
     keywords |-> <<<<26144, 30011>>,
                    <<12362, 12377, 12377, 12417>>>>],
    [query    |-> <<20170, 26085, 12399, 20309, 12434, 12377, 12428, 12400,
                  12356, 12356, 65311>>,
     keywords |-> <<<<20170, 26085>>,
                    <<20309>>>>],
    [query    |-> <<12450, 12491, 12513, 12398, 26032, 20316, 12354, 12427,
                  65311>>,
     keywords |-> <<<<12450, 12491, 12513>>,
                    <<26032, 20316>>>>],
    [query    |-> <<84, 121, 112, 101, 83, 99, 114, 105, 112, 116, 12395,
                  12388, 12356, 12390>>,
     keywords |-> <<<<84, 121, 112, 101, 83, 99, 114, 105, 112, 116>>,
                    <<12388, 12356, 12390>>>>],
    [query    |-> <<12497, 12540, 12477, 12490, 12523, 65, 73, 12398, 36914,
                  25431, 12434, 25945, 12360, 12390>>,
     keywords |-> <<<<12497, 12540, 12477, 12490, 12523, 65, 73>>,
                    <<36914, 25431>>>>] }

DocumentedQueries == {Case1Query} \cup {e.query : e \in DocumentedExamples}

InitKeywords ==
  /\ SearchInit
  /\ OuterIdle
  /\ kwIn \in KwInputs \cup DocumentedQueries
  /\ kwOut = NotRun
  /\ kwAgain = NotRun
  /\ LocatorIdle
  /\ NormalizerIdle
  /\ AcceptanceIdle
  /\ RouteIdle
  /\ ContextIdle

RunExtractKeywords ==
  /\ ~kwOut.done
  /\ kwOut' = [done |-> TRUE, value |-> extractKeywords(kwIn)]
  /\ UNCHANGED <<kwIn, kwAgain>>
  /\ UNCHANGED <<urlVars, normVars, accVars, routeVars, ctxVars>>
  /\ UNCHANGED searchVars
  /\ UNCHANGED outerVars

\* The keywords, joined by single spaces, are given to extractKeywords again.
ReExtractKeywords ==
  /\ kwOut.done
  /\ ~kwAgain.done
  /\ kwAgain' = [done  |-> TRUE,
                 value |-> extractKeywords(JoinWith(kwOut.value, <<32>>))]
  /\ UNCHANGED <<kwIn, kwOut>>
  /\ UNCHANGED <<urlVars, normVars, accVars, routeVars, ctxVars>>
  /\ UNCHANGED searchVars
  /\ UNCHANGED outerVars

NextKeywords ==
  \/ RunExtractKeywords
  \/ ReExtractKeywords

SpecKeywords == InitKeywords /\ [][NextKeywords]_vars

(***************************************************************************)
(* extractDatabaseIdFromUrl, and the loader on one enabled record, applied *)
(* to locators assembled from a path prefix, a name, an identifier and a   *)
(* tail.                                                                   *)
(***************************************************************************)

\* "", "https://host/", "host/a-b/", "?/"
UrlPrefixes ==
  { <<>>, <<104, 116, 116, 112, 115, 58, 47, 47, 104, 111, 115, 116, 47>>,
    <<104, 111, 115, 116, 47, 97, 45, 98, 47>>, <<63, 47>> }

\* "", "Name-", "My-Name-", "Name", "-"
UrlNames ==
  { <<>>, <<78, 97, 109, 101, 45>>, <<77, 121, 45, 78, 97, 109, 101, 45>>,
    <<78, 97, 109, 101>>, <<45>> }

\* 32 lower-case hex, 32 mixed-case hex, 31 hex, 33 hex, 32 characters with
\* one non-hex letter g, nothing, and the identifier in dashed 8-4-... form.
UrlIds ==
  { IdA, IdB, SubSeq(IdA, 1, IdLen - 1), Append(IdA, 48),
    [IdA EXCEPT ![7] = 103], <<>>,
    SubSeq(IdA, 1, 8) \o <<45>> \o SubSeq(IdA, 9, IdLen) }

\* "", "?v=1", "?v=a/b", "?x-y", "/", "-", "?", "#f"
UrlTails ==
  { <<>>, <<63, 118, 61, 49>>, <<63, 118, 61, 97, 47, 98>>, <<63, 120, 45, 121>>,
    <<47>>, <<45>>, <<63>>, <<35, 102>> }

UrlInputs ==
  { p \o n \o id \o t :
      p \in UrlPrefixes, n \in UrlNames, id \in UrlIds, t \in UrlTails }

InitLocator ==
  /\ SearchInit
  /\ OuterIdle
  /\ KeywordsIdle
  /\ urlIn \in UrlInputs
  /\ urlOut = NotRun
  /\ NormalizerIdle
  /\ AcceptanceIdle
  /\ RouteIdle
  /\ ContextIdle

RunLoaderOnLocator ==
  /\ ~urlOut.done
  /\ urlOut' =
       [done |-> TRUE,
        value |-> [id      |-> extractDatabaseIdFromUrl(urlIn),
                   configs |-> BuildConfigs(<<[CfgA EXCEPT !.url = urlIn]>>)]]
  /\ UNCHANGED urlIn
  /\ UNCHANGED <<kwVars, normVars, accVars, routeVars, ctxVars>>
  /\ UNCHANGED searchVars
  /\ UNCHANGED outerVars

SpecLocator == InitLocator /\ [][RunLoaderOnLocator]_vars

(***************************************************************************)
(* mapNotionPageToSearchResult applied to pages assembled from a small set *)
(* of properties, in every key order, for two source descriptors; a page   *)
(* has at most one title property.                                         *)
(***************************************************************************)

MaxProps == 3

\* title "T", title " T" (leading space), title with no text, title " ",
\* rich_text "b" + " ", rich_text with no text, url "u", url null,
\* select "s", multi_select a b, number.
NormProps ==
  { Prop("title", <<<<84>>>>), Prop("title", <<<<32>>, <<84>>>>),
    Prop("title", <<>>), Prop("title", <<<<32>>>>),
    Prop("rich_text", <<<<98>>, <<32>>>>), Prop("rich_text", <<>>),
    Prop("url", <<<<117>>>>), Prop("url", <<>>),
    Prop("select", <<<<115>>>>),
    Prop("multi_select", <<<<97>>, <<98>>>>),
    Prop("number", <<>>) }

AtMostOneTitle(props) == Len(SelectSeq(props, IsTitleProp)) <= 1

NormPages ==
  { Page(7, props) :
      props \in {ps \in SeqsUpTo(NormProps, MaxProps) : AtMostOneTitle(ps)} }
    \cup {PartialPage(7)}

NormConfigs == {ConfigOf(CfgA), ConfigOf(CfgB)}

InitNormalizer ==
  /\ SearchInit
  /\ OuterIdle
  /\ KeywordsIdle
  /\ LocatorIdle
  /\ normIn \in [page : NormPages, config : NormConfigs]
  /\ normOut = NotRun
  /\ AcceptanceIdle
  /\ RouteIdle
  /\ ContextIdle

RunNormalizer ==
  /\ ~normOut.done
  /\ normOut' =
       [done  |-> TRUE,
        value |-> IF MapThrows(normIn.page)
                  THEN [threw |-> TRUE, result |-> <<>>]
                  ELSE [threw  |-> FALSE,
                        result |-> mapNotionPageToSearchResult(normIn.page,
                                                               normIn.config)]]
  /\ UNCHANGED normIn
  /\ UNCHANGED <<kwVars, urlVars, accVars, routeVars, ctxVars>>
  /\ UNCHANGED searchVars
  /\ UNCHANGED outerVars

SpecNormalizer == InitNormalizer /\ [][RunNormalizer]_vars

(***************************************************************************)
(* The acceptance loop of fallbackSearchAllPages on the records of one     *)
(* source, for a keyword list and for the same list with keywords added    *)
(* in front of it or behind it.                                            *)
(***************************************************************************)

MaxKeywords == 2

\* "ai", 漫画, "diary", and "zz", which occurs in no record.
AccPool == { <<97, 105>>, Manga, <<100, 105, 97, 114, 121>>, <<122, 122>> }

AccKeywordLists == SeqsUpTo(AccPool, MaxKeywords)

\* Source A with its three records, source B with its first three.
AccSources ==
  << [config |-> ConfigOf(CfgA), pages |-> PagesA],
     [config |-> ConfigOf(CfgB), pages |-> Take(PagesB, 3)] >>

ExtendedKeywords(in) ==
  IF in.front THEN in.added \o in.base ELSE in.base \o in.added

InitAcceptance ==
  /\ SearchInit
  /\ OuterIdle
  /\ KeywordsIdle
  /\ LocatorIdle
  /\ NormalizerIdle
  /\ accIn \in [base : AccKeywordLists, added : AccKeywordLists,
                 front : BOOLEAN, source : 1..Len(AccSources)]
  /\ accOut = NotRun
  /\ RouteIdle
  /\ ContextIdle

RunAcceptance ==
  /\ ~accOut.done
  /\ LET src == AccSources[accIn.source]
     IN  accOut' =
           [done  |-> TRUE,
            value |-> [before |-> MatchPages(src.pages, src.config, accIn.base),
                       after  |-> MatchPages(src.pages, src.config,
                                             ExtendedKeywords(accIn))]]
  /\ UNCHANGED accIn
  /\ UNCHANGED <<kwVars, urlVars, normVars, routeVars, ctxVars>>
  /\ UNCHANGED searchVars
  /\ UNCHANGED outerVars

SpecAcceptance == InitAcceptance /\ [][RunAcceptance]_vars

(***************************************************************************)
(* POST /search_knowledge (searchKnowledgeRoute.ts 106-138). The handler   *)
(* runs behind express.json(), so req.body is an object; the core call is  *)
(* seen from the route as a promise that resolves or rejects.              *)
(***************************************************************************)

MaxBodyLen == 3

\* space, ideographic space, "a", 漫
RouteAlphabet == {32, 12288, 97, 28459}

\* query absent, null, 0, 5, false, true, an object, an array, or a string.
RouteBodies ==
  { NoBody,
    [type |-> "object",  truthy |-> FALSE, value |-> <<>>],
    [type |-> "number",  truthy |-> FALSE, value |-> <<>>],
    [type |-> "number",  truthy |-> TRUE,  value |-> <<>>],
    [type |-> "boolean", truthy |-> FALSE, value |-> <<>>],
    [type |-> "boolean", truthy |-> TRUE,  value |-> <<>>],
    [type |-> "object",  truthy |-> TRUE,  value |-> <<>>] }
  \cup { [type |-> "string", truthy |-> s # <<>>, value |-> s] :
           s \in SeqsUpTo(RouteAlphabet, MaxBodyLen) }

\* Mutant: the test of the trimmed length is missing.
IsValidQuery_NoTrim(q) == ~(~q.truthy \/ q.type # "string")

\* !( !query || typeof query !== 'string' || query.trim().length === 0 )
IsValidQuery(q) ==
  ~(~q.truthy \/ q.type # "string" \/ Len(trim(q.value)) = 0)

\* The handler up to its await: validation, then the call of the core.
PostSearchKnowledge(q) ==
  /\ routePc = "idle"
  /\ routeBody' = q
  /\ IF ~IsValidQuery(q)
     THEN /\ routeResponse' = [status |-> 400, body |-> "ValidationError"]
          /\ routePc' = "responded"
          /\ UNCHANGED coreCalls
     ELSE /\ coreCalls' = Append(coreCalls, [query   |-> trim(q.value),
                                              outcome |-> "pending"])
          /\ routePc' = "awaiting"
          /\ UNCHANGED routeResponse
  /\ UNCHANGED <<kwVars, urlVars, normVars, accVars, ctxVars>>
  /\ UNCHANGED searchVars
  /\ UNCHANGED outerVars

\* searchKnowledge resolves: res.status(200).json(result).
CoreReturns ==
  /\ routePc = "awaiting"
  /\ coreCalls' = [coreCalls EXCEPT ![Len(coreCalls)].outcome = "ok"]
  /\ routeResponse' = [status |-> 200, body |-> "SearchKnowledgeResponse"]
  /\ routePc' = "responded"
  /\ UNCHANGED routeBody
  /\ UNCHANGED <<kwVars, urlVars, normVars, accVars, ctxVars>>
  /\ UNCHANGED searchVars
  /\ UNCHANGED outerVars

\* searchKnowledge rejects: the catch block answers 500.
CoreThrows ==
  /\ routePc = "awaiting"
  /\ coreCalls' = [coreCalls EXCEPT ![Len(coreCalls)].outcome = "error"]
  /\ routeResponse' = [status |-> 500, body |-> "InternalServerError"]
  /\ routePc' = "responded"
  /\ UNCHANGED routeBody
  /\ UNCHANGED <<kwVars, urlVars, normVars, accVars, ctxVars>>
  /\ UNCHANGED searchVars
  /\ UNCHANGED outerVars

NextRoute ==
  \/ \E q \in RouteBodies : PostSearchKnowledge(q)
  \/ CoreReturns
  \/ CoreThrows

SpecRoute == Init /\ [][NextRoute]_vars

(***************************************************************************)
(* The context rendering of runAgent (agentCore.ts 253-353): from the two  *)
(* result lists to the prompt given to callLlm, or to the fixed answer     *)
(* when both lists are empty.                                              *)
(***************************************************************************)

MaxHits == 11

SnippetLimit == 10

PreviewCap == 200

NoUrl == <<"undefined">>

\* The decimal digits of a number below 100.
Digits(n) == IF n < 10 THEN <<48 + n>> ELSE <<48 + (n \div 10), 48 + (n % 10)>>

Filled(c, n) == [i \in 1..n |-> c]

\* '（Notion側のメモはヒットしませんでした）'
NoNotionHits ==
  <<65288, 78, 111, 116, 105, 111, 110, 20596, 12398, 12513, 12514, 12399,
  12498, 12483, 12488, 12375, 12414, 12379, 12435, 12391, 12375, 12383,
  65289>>

\* '（Web側の情報はヒットしませんでした）'
NoWebHits ==
  <<65288, 87, 101, 98, 20596, 12398, 24773, 22577, 12399, 12498, 12483,
  12488, 12375, 12414, 12379, 12435, 12391, 12375, 12383, 65289>>

\* Mutant: a body of exactly 200 characters is cut as well (>= for >).
Preview_CutAtCap(text) ==
  IF Len(text) >= PreviewCap
  THEN SubSeq(text, 1, PreviewCap) \o <<46, 46, 46>>
  ELSE text

\* r.content.length > 200 ? r.content.slice(0, 200) + '...' : r.content
Preview(text) ==
  IF Len(text) > PreviewCap THEN SubSeq(text, 1, PreviewCap) \o <<46, 46, 46>>
  ELSE text

\* `## Doc${idx + 1}: ${r.title}\n${preview}\nURL: ${r.url ?? 'URLなし'}`
DocBlock(r, idx) ==
  <<35, 35, 32, 68, 111, 99>> \o Digits(idx + 1) \o <<58, 32>> \o r.title
    \o <<10>> \o Preview(r.content) \o <<10, 85, 82, 76, 58, 32>>
    \o (IF r.url = NoUrl THEN <<85, 82, 76, 12394, 12375>> ELSE r.url)

\* `## Web${idx + 1}: ${r.title}\n${preview}\nURL: ${r.url}`
WebBlock(r, idx) ==
  <<35, 35, 32, 87, 101, 98>> \o Digits(idx + 1) \o <<58, 32>> \o r.title
    \o <<10>> \o Preview(r.snippet) \o <<10, 85, 82, 76, 58, 32>> \o r.url

\* Mutant: every result is rendered (the slice(0, 10) is missing).
notionSnippets_NoSlice(notionResults) ==
  IF Len(notionResults) = 0 THEN NoNotionHits
  ELSE JoinWith([i \in 1..Len(notionResults) |->
                   DocBlock(notionResults[i], i - 1)], <<10, 10>>)

notionSnippets(notionResults) ==
  IF Len(notionResults) = 0 THEN NoNotionHits
  ELSE LET shown == Take(notionResults, SnippetLimit)
       IN  JoinWith([i \in 1..Len(shown) |-> DocBlock(shown[i], i - 1)],
                    <<10, 10>>)

webSnippets(webResults) ==
  IF Len(webResults) = 0 THEN NoWebHits
  ELSE LET shown == Take(webResults, SnippetLimit)
       IN  JoinWith([i \in 1..Len(shown) |-> WebBlock(shown[i], i - 1)],
                    <<10, 10>>)

\* The instruction text of the template (agentCore.ts 297-343), of which
\* only the first line is kept here:
\* 'あなたは私専用のアシスタントです。' ... '---'
PromptRules ==
  <<12354, 12394, 12383, 12399, 31169, 23554, 29992, 12398, 12450, 12471,
  12473, 12479, 12531, 12488, 12391, 12377, 12290>>
    \o <<10, 45, 45, 45, 10>>

\* '# ユーザーの質問'
QuestionHeading == <<35, 32, 12518, 12540, 12470, 12540, 12398, 36074, 21839>>

\* '# Notionから取得した情報'
NotionHeading ==
  <<35, 32, 78, 111, 116, 105, 111, 110, 12363, 12425, 21462, 24471, 12375,
  12383, 24773, 22577>>

\* '# Webから取得した情報'
WebHeading ==
  <<35, 32, 87, 101, 98, 12363, 12425, 21462, 24471, 12375, 12383, 24773,
  22577>>

\* The template literal of lines 296-353, trimmed.
BuildPrompt(question, notionResults, webResults) ==
  trim(<<10>> \o PromptRules \o <<10>>
         \o QuestionHeading \o <<10>> \o question \o <<10, 10>>
         \o NotionHeading \o <<10>> \o notionSnippets(notionResults)
         \o <<10, 10>>
         \o WebHeading \o <<10>> \o webSnippets(webResults)
         \o <<10, 32, 32, 32, 32>>)

\* The k-th knowledge result "N" + letter and web result "W" + letter; the
\* first body has 200 characters, the second 201, the others at most 2;
\* knowledge results with an even index have no url.
NotionHit(k) ==
  [title   |-> <<78, 64 + k>>,
   content |-> IF k = 1 THEN Filled(99, PreviewCap)
               ELSE IF k = 2 THEN Filled(99, PreviewCap + 1)
               ELSE Filled(99, k % 3),
   url     |-> IF k % 2 = 0 THEN NoUrl ELSE <<117, 64 + k>>]

WebHit(k) ==
  [title   |-> <<87, 64 + k>>,
   snippet |-> IF k = 1 THEN Filled(115, PreviewCap + 1)
               ELSE IF k = 2 THEN Filled(115, PreviewCap)
               ELSE Filled(115, k % 3),
   url     |-> <<118, 64 + k>>]

NotionHits(n) == [k \in 1..n |-> NotionHit(k)]

WebHits(n) == [k \in 1..n |-> WebHit(k)]

\* "manga?"
Question == <<109, 97, 110, 103, 97, 63>>

InitContext ==
  /\ SearchInit
  /\ OuterIdle
  /\ KeywordsIdle
  /\ LocatorIdle
  /\ NormalizerIdle
  /\ AcceptanceIdle
  /\ RouteIdle
  /\ ctxIn \in [notion : {NotionHits(n) : n \in 0..MaxHits},
                 web    : {WebHits(n) : n \in 0..MaxHits}]
  /\ ctxOut = NotRun

\* Lines 258-353 of runAgent, once both result lists are known.
RenderContext ==
  /\ ~ctxOut.done
  /\ ctxOut' =
       [done  |-> TRUE,
        value |-> IF Len(ctxIn.notion) = 0 /\ Len(ctxIn.web) = 0
                  THEN [kind |-> "noResult", prompt |-> <<>>]
                  ELSE [kind   |-> "prompt",
                        prompt |-> BuildPrompt(Question, ctxIn.notion,
                                               ctxIn.web)]]
  /\ UNCHANGED ctxIn
  /\ UNCHANGED <<kwVars, urlVars, normVars, accVars, routeVars>>
  /\ UNCHANGED searchVars
  /\ UNCHANGED outerVars

SpecContext == InitContext /\ [][RenderContext]_vars

(***************************************************************************)
(* runAgent (agentCore.ts 216-412): the search query is derived from the   *)
(* question, the searches the mode asks for are called, and unless both    *)
(* result lists are empty the prompt goes to callLlm.  The two search      *)
(* servers answer 400 to a query they reject and may fail otherwise.       *)
(***************************************************************************)
MaxSearchHits == 1   \* results a search answers with

\* const marker = 'に関する'
Marker == <<12395, 38306, 12377, 12427>>

\* String.prototype.indexOf: the offset of the first occurrence, or -1.
indexOf(text, pat) ==
  LET at == {a \in 0..(Len(text) - Len(pat)) :
               SubSeq(text, a + 1, a + Len(pat)) = pat}
  IN  IF at = {} THEN -1 ELSE CHOOSE a \in at : \A b \in at : a <= b

generateSearchQuery(q) ==
  LET index == indexOf(q, Marker)
  IN  IF index = -1 THEN trim(q) ELSE trim(SubSeq(q, 1, index))

\* '💡 NotionにもWebにも該当する情報が見つかりませんでした。'
NoResultMessage ==
  <<55357, 56481, 32, 78, 111, 116, 105, 111, 110, 12395, 12418, 87, 101, 98,
    12395, 12418, 35442, 24403, 12377, 12427, 24773, 22577, 12364, 35211,
    12388, 12363, 12426, 12414, 12379, 12435, 12391, 12375, 12383, 12290>>

\* Questions: an opening ("", " ", "a", "a ", an ideographic space), then
\* nothing, the marker or its first half, then nothing, "x" or the marker.
AgentQuestions ==
  {pre \o mid \o post :
     pre  \in {<<>>, <<32>>, <<97>>, <<97, 32>>, <<12288>>},
     mid  \in {<<>>, Marker, <<12395, 38306>>},
     post \in {<<>>, <<120>>, Marker}}

AgentModes == {"unset", "default", "notion-only", "web-only"}

\* const mode = options?.mode ?? 'default'
EffectiveMode(m) == IF m = "unset" THEN "default" ELSE m

\* response.data.choices?.[0]?.message?.content ?? ''
LlmTexts == {<<>>, <<79, 75>>}

\* POST /search_knowledge answers 400 to such a query (searchKnowledgeRoute
\* 111), POST /web_search to an empty one (if (!query)).
NotionRouteAccepts(q) ==
  IsValidQuery([type |-> "string", truthy |-> q # <<>>, value |-> q])

WebRouteAccepts(q) == q # <<>>

IssuedCall(q) ==
  [state |-> "inflight", query |-> q, results |-> <<>>, error |-> "none"]

\* Mutant: the no-result return is missing, callLlm is always called.
AfterSearch_NoEarlyReturn(notionResults, webResults) ==
  /\ agentPc' = "generating"
  /\ llmCalls' =
       Append(llmCalls, BuildPrompt(agentQuestion, notionResults, webResults))
  /\ UNCHANGED agentResult

\* Lines 253-356: the no-result return, or the prompt is built and callLlm
\* is called.
AfterSearch(notionResults, webResults) ==
  IF Len(notionResults) = 0 /\ Len(webResults) = 0
  THEN /\ agentPc' = "returned"
       /\ agentResult' =
            [kind |-> "answer", answer |-> NoResultMessage, error |-> "none"]
       /\ UNCHANGED llmCalls
  ELSE /\ agentPc' = "generating"
       /\ llmCalls' =
            Append(llmCalls, BuildPrompt(agentQuestion, notionResults, webResults))
       /\ UNCHANGED agentResult

\* runAgent(question, options) is called (216-251): both searches at once
\* in default mode, one of them in the other modes.
RunAgent(q, m) ==
  /\ agentPc = "idle"
  /\ agentPc' = "searching"
  /\ agentQuestion' = q
  /\ mode' = m
  /\ searchQuery' = generateSearchQuery(q)
  /\ notionCall' = IF EffectiveMode(m) \in {"default", "notion-only"}
                   THEN IssuedCall(generateSearchQuery(q)) ELSE NoCall
  /\ webCall' = IF EffectiveMode(m) \in {"default", "web-only"}
                THEN IssuedCall(generateSearchQuery(q)) ELSE NoCall
  /\ UNCHANGED <<settled, llmCalls, agentResult>>
  /\ UNCHANGED <<searchVars, helperVars, histVars, ttsVars>>

\* The knowledge-source search answers 200.
NotionSearchReturns(n) ==
  /\ agentPc \in {"searching", "thrown"}
  /\ notionCall.state = "inflight"
  /\ NotionRouteAccepts(notionCall.query)
  /\ notionCall' = [notionCall EXCEPT !.state = "ok", !.results = NotionHits(n)]
  /\ settled' = Append(settled, "notion")
  /\ IF agentPc = "thrown" \/ webCall.state = "inflight"
     THEN UNCHANGED <<agentPc, llmCalls, agentResult>>
     ELSE AfterSearch(NotionHits(n), webCall.results)
  /\ UNCHANGED <<agentQuestion, mode, searchQuery, webCall>>
  /\ UNCHANGED <<searchVars, helperVars, histVars, ttsVars>>

\* Mutant: a failed knowledge-source search counts as an empty result list
\* and the web results are still used.
NotionSearchFails_Isolated ==
  /\ agentPc \in {"searching", "thrown"}
  /\ notionCall.state = "inflight"
  /\ notionCall' =
       [notionCall EXCEPT
          !.state = "failed",
          !.error = IF NotionRouteAccepts(notionCall.query)
                    THEN "NotionHttp500" ELSE "NotionHttp400"]
  /\ settled' = Append(settled, "notion")
  /\ IF agentPc = "thrown" \/ webCall.state = "inflight"
     THEN UNCHANGED <<agentPc, llmCalls, agentResult>>
     ELSE AfterSearch(<<>>, webCall.results)
  /\ UNCHANGED <<agentQuestion, mode, searchQuery, webCall>>
  /\ UNCHANGED <<searchVars, helperVars, histVars, ttsVars>>

\* The knowledge-source search fails: callNotionSearch re-throws, Promise.all
\* or the await rejects, the catch of runAgent re-throws (145-151, 380-411).
NotionSearchFails ==
  /\ agentPc \in {"searching", "thrown"}
  /\ notionCall.state = "inflight"
  /\ notionCall' =
       [notionCall EXCEPT
          !.state = "failed",
          !.error = IF NotionRouteAccepts(notionCall.query)
                    THEN "NotionHttp500" ELSE "NotionHttp400"]
  /\ settled' = Append(settled, "notion")
  /\ IF agentPc = "thrown"
     THEN UNCHANGED <<agentPc, agentResult>>
     ELSE /\ agentPc' = "thrown"
          /\ agentResult' =
               [kind |-> "error", answer |-> <<>>, error |-> notionCall'.error]
  /\ UNCHANGED <<agentQuestion, mode, searchQuery, webCall, llmCalls>>
  /\ UNCHANGED <<searchVars, helperVars, histVars, ttsVars>>

\* The web search answers 200.
WebSearchReturns(n) ==
  /\ agentPc \in {"searching", "thrown"}
  /\ webCall.state = "inflight"
  /\ WebRouteAccepts(webCall.query)
  /\ webCall' = [webCall EXCEPT !.state = "ok", !.results = WebHits(n)]
  /\ settled' = Append(settled, "web")
  /\ IF agentPc = "thrown" \/ notionCall.state = "inflight"
     THEN UNCHANGED <<agentPc, llmCalls, agentResult>>
     ELSE AfterSearch(notionCall.results, WebHits(n))
  /\ UNCHANGED <<agentQuestion, mode, searchQuery, notionCall>>
  /\ UNCHANGED <<searchVars, helperVars, histVars, ttsVars>>

\* The web search fails (178-184, 380-411).
WebSearchFails ==
  /\ agentPc \in {"searching", "thrown"}
  /\ webCall.state = "inflight"
  /\ webCall' =
       [webCall EXCEPT
          !.state = "failed",
          !.error = IF WebRouteAccepts(webCall.query)
                    THEN "WebHttp500" ELSE "WebHttp400"]
  /\ settled' = Append(settled, "web")
  /\ IF agentPc = "thrown"
     THEN UNCHANGED <<agentPc, agentResult>>
     ELSE /\ agentPc' = "thrown"
          /\ agentResult' =
               [kind |-> "error", answer |-> <<>>, error |-> webCall'.error]
  /\ UNCHANGED <<agentQuestion, mode, searchQuery, notionCall, llmCalls>>
  /\ UNCHANGED <<searchVars, helperVars, histVars, ttsVars>>

\* callLlm returns the text of the first choice (111-113, 356-377).
LlmReturns(text) ==
  /\ agentPc = "generating"
  /\ agentPc' = "returned"
  /\ agentResult' = [kind |-> "answer", answer |-> text, error |-> "none"]
  /\ UNCHANGED <<agentQuestion, mode, searchQuery, notionCall, webCall, settled,
                 llmCalls>>
  /\ UNCHANGED <<searchVars, helperVars, histVars, ttsVars>>

\* callLlm throws: the environment is not set (87-89) or the request fails.
LlmThrows(err) ==
  /\ agentPc = "generating"
  /\ agentPc' = "thrown"
  /\ agentResult' = [kind |-> "error", answer |-> <<>>, error |-> err]
  /\ UNCHANGED <<agentQuestion, mode, searchQuery, notionCall, webCall, settled,
                 llmCalls>>
  /\ UNCHANGED <<searchVars, helperVars, histVars, ttsVars>>

\* The caller has the answer or the error; the next call starts afresh.
AgentDone ==
  /\ agentPc \in {"returned", "thrown"}
  /\ agentPc' = "idle"
  /\ agentQuestion' = <<>>
  /\ mode' = "unset"
  /\ searchQuery' = <<>>
  /\ notionCall' = NoCall
  /\ webCall' = NoCall
  /\ settled' = <<>>
  /\ llmCalls' = <<>>
  /\ agentResult' = NoAgentResult
  /\ UNCHANGED <<searchVars, helperVars, histVars, ttsVars>>

NextAgent ==
  \/ \E q \in AgentQuestions, m \in AgentModes : RunAgent(q, m)
  \/ \E n \in 0..MaxSearchHits : NotionSearchReturns(n)
  \/ NotionSearchFails
  \/ \E n \in 0..MaxSearchHits : WebSearchReturns(n)
  \/ WebSearchFails
  \/ \E text \in LlmTexts : LlmReturns(text)
  \/ \E err \in {"LlmEnvUnset", "LlmHttpError"} : LlmThrows(err)
  \/ AgentDone

SpecAgent == Init /\ [][NextAgent]_vars

(***************************************************************************)
(* The speech bridge (tts-bridge): POST /speak and POST /ask_and_speak     *)
(* (agentClient.ts 92-153), VoicevoxService.generateSpeech (voicevox.ts    *)
(* 58-110) and AudioPlayer.play (audioPlayer.ts 10-53), on Node's event    *)
(* loop.  A handler runs until it waits for I/O (a fetch, the reading of   *)
(* a response body); the completion of an I/O wait and the arrival of a    *)
(* request are callbacks of the loop, each belonging to one request, and   *)
(* the loop runs all ready continuations (the microtask queue, first in    *)
(* first out) before it takes its next callback.  writeFileSync and        *)
(* spawnSync do not wait on the loop.  The speech of a text is named by    *)
(* the text.                                                               *)
(***************************************************************************)
Texts == {1, 2}

\* Positions in which a handler waits for I/O.
IoWaits ==
  {"ask.fetch", "ask.json", "query.fetch", "query.json", "synth.fetch",
   "synth.body"}

\* The continuation that becomes ready when the wait ends.
Resumed(wait) ==
  CASE wait = "ask.fetch"   -> "ask.resumed"
    [] wait = "ask.json"    -> "ask.return"
    [] wait = "query.fetch" -> "query.resumed"
    [] wait = "query.json"  -> "query.return"
    [] wait = "synth.fetch" -> "synth.resumed"
    [] wait = "synth.body"  -> "synth.return"

\* A request arrives: the handler runs up to its first await.  Without a
\* text or question it answers 400 (96-99, 127-130); /speak goes into
\* generateSpeech and createAudioQuery's fetch, /ask_and_speak into
\* agentClient.ask's fetch.
Receive(r, route, text) ==
  /\ microtasks = <<>>
  /\ ttsPc[r] = "none"
  /\ ttsRoute' = [ttsRoute EXCEPT ![r] = route]
  /\ IF text = 0
     THEN /\ ttsPc' = [ttsPc EXCEPT ![r] = "responded"]
          /\ ttsStatus' = [ttsStatus EXCEPT ![r] = 400]
          /\ UNCHANGED ttsText
     ELSE IF route = "speak"
     THEN /\ ttsPc' = [ttsPc EXCEPT ![r] = "query.fetch"]
          /\ ttsText' = [ttsText EXCEPT ![r] = text]
          /\ UNCHANGED ttsStatus
     ELSE /\ ttsPc' = [ttsPc EXCEPT ![r] = "ask.fetch"]
          /\ UNCHANGED <<ttsText, ttsStatus>>
  /\ UNCHANGED <<microtasks, voiceFile, played>>
  /\ UNCHANGED <<searchVars, helperVars, histVars, agentVars>>

\* Mutant: the loop takes the next callback while continuations are still
\* ready.
IoCompletes_NoDrain(r, answer) ==
  /\ ttsPc[r] \in IoWaits
  /\ ttsPc' = [ttsPc EXCEPT ![r] = Resumed(ttsPc[r])]
  /\ ttsText' = IF ttsPc[r] = "ask.json"
                THEN [ttsText EXCEPT ![r] = answer] ELSE ttsText
  /\ microtasks' = Append(microtasks, r)
  /\ UNCHANGED <<ttsRoute, ttsStatus, voiceFile, played>>
  /\ UNCHANGED <<searchVars, helperVars, histVars, agentVars>>

\* The I/O a handler waits for completes: its continuation becomes ready.
\* The body of the agent's response carries the answer (agentClient.ts 30).
IoCompletes(r, answer) ==
  /\ microtasks = <<>>
  /\ ttsPc[r] \in IoWaits
  /\ ttsPc' = [ttsPc EXCEPT ![r] = Resumed(ttsPc[r])]
  /\ ttsText' = IF ttsPc[r] = "ask.json"
                THEN [ttsText EXCEPT ![r] = answer] ELSE ttsText
  /\ microtasks' = Append(microtasks, r)
  /\ UNCHANGED <<ttsRoute, ttsStatus, voiceFile, played>>
  /\ UNCHANGED <<searchVars, helperVars, histVars, agentVars>>

\* The I/O fails, or the response is not ok: the continuation throws and
\* the handler's catch is reached.
IoFails(r) ==
  /\ microtasks = <<>>
  /\ ttsPc[r] \in IoWaits
  /\ ttsPc' = [ttsPc EXCEPT ![r] = "catch"]
  /\ microtasks' = Append(microtasks, r)
  /\ UNCHANGED <<ttsRoute, ttsText, ttsStatus, voiceFile, played>>
  /\ UNCHANGED <<searchVars, helperVars, histVars, agentVars>>

\* One ready continuation runs, that of the request at the head of the
\* queue, up to its next await: it starts an I/O wait, or it returns from
\* an async function and the continuation of its caller becomes ready.
\*   ask.resumed, query.resumed, synth.resumed: response.ok, then the body
\*     is read (agentClient.ts 26-30, voicevox.ts 63-67, 84-89)
\*   ask.return, query.return, synth.return: the async function returns
\*   ask.done: generateSpeech(answer), createAudioQuery, fetch (138, 99, 61)
\*   query.done: synthesis, fetch (102, 76)
\*   write: fs.writeFileSync(voice.wav, wavData), return outputPath (105-109)
\*   play: audioPlayer.play(wavPath), res.json (107-109, 141-143); play
\*     throws when PowerShell fails
\*   catch: res.status(500) (110-116, 144-150)
RunMicrotask(playOk) ==
  /\ microtasks # <<>>
  /\ LET r    == Head(microtasks)
         at   == ttsPc[r]
         rest == Tail(microtasks)
         Wait(w) == /\ ttsPc' = [ttsPc EXCEPT ![r] = w]
                    /\ microtasks' = rest
                    /\ UNCHANGED <<ttsStatus, voiceFile, played>>
         Hop(c)  == /\ ttsPc' = [ttsPc EXCEPT ![r] = c]
                    /\ microtasks' = Append(rest, r)
                    /\ UNCHANGED <<ttsStatus, voiceFile, played>>
     IN  CASE at = "ask.resumed"   -> Wait("ask.json")
           [] at = "ask.return"    -> Hop("ask.done")
           [] at = "ask.done"      -> Wait("query.fetch")
           [] at = "query.resumed" -> Wait("query.json")
           [] at = "query.return"  -> Hop("query.done")
           [] at = "query.done"    -> Wait("synth.fetch")
           [] at = "synth.resumed" -> Wait("synth.body")
           [] at = "synth.return"  -> Hop("write")
           [] at = "write" ->
                /\ voiceFile' = [writer |-> r, speech |-> ttsText[r]]
                /\ ttsPc' = [ttsPc EXCEPT ![r] = "play"]
                /\ microtasks' = Append(rest, r)
                /\ UNCHANGED <<ttsStatus, played>>
           [] at = "play" ->
                /\ ttsPc' = [ttsPc EXCEPT ![r] = "responded"]
                /\ microtasks' = rest
                /\ played' = IF playOk THEN [played EXCEPT ![r] = voiceFile]
                             ELSE played
                /\ ttsStatus' =
                     [ttsStatus EXCEPT ![r] = IF playOk THEN 200 ELSE 500]
                /\ UNCHANGED voiceFile
           [] at = "catch" ->
                /\ ttsPc' = [ttsPc EXCEPT ![r] = "responded"]
                /\ microtasks' = rest
                /\ ttsStatus' = [ttsStatus EXCEPT ![r] = 500]
                /\ UNCHANGED <<voiceFile, played>>
  /\ UNCHANGED <<ttsRoute, ttsText>>
  /\ UNCHANGED <<searchVars, helperVars, histVars, agentVars>>

\* The response has gone out; the next request is a new one.
RequestOver(r) ==
  /\ microtasks = <<>>
  /\ ttsPc[r] = "responded"
  /\ ttsPc' = [ttsPc EXCEPT ![r] = "none"]
  /\ ttsRoute' = [ttsRoute EXCEPT ![r] = "none"]
  /\ ttsText' = [ttsText EXCEPT ![r] = 0]
  /\ ttsStatus' = [ttsStatus EXCEPT ![r] = 0]
  /\ played' = [played EXCEPT ![r] = NoFile]
  /\ UNCHANGED <<microtasks, voiceFile>>
  /\ UNCHANGED <<searchVars, helperVars, histVars, agentVars>>

NextBridge ==
  \/ \E r \in Requests, route \in {"speak", "ask_and_speak"},
        text \in Texts \cup {0} : Receive(r, route, text)
  \/ \E r \in Requests, answer \in Texts : IoCompletes(r, answer)
  \/ \E r \in Requests : IoFails(r)
  \/ \E playOk \in BOOLEAN : RunMicrotask(playOk)
  \/ \E r \in Requests : RequestOver(r)

SpecBridge == Init /\ [][NextBridge]_vars

(***************************************************************************)
(* searchKnowledge when every query it issues is answered in the end: the  *)
(* configuration-store query, each title query and the enumeration query   *)
(* the fallback loop waits for succeed or fail, and the continuation of an *)
(* await runs once its promise has settled.  Nothing obliges a caller to   *)
(* call, or the frame of a finished call to be left.                       *)
(***************************************************************************)
ConfigQuerySettles == LoadReject \/ \E resp \in ConfigResponses : LoadResolve(resp)

TitleQuerySettles(i) ==
  \/ PrimaryReject(i)
  \/ /\ i \in 1..Len(primState)
     /\ \E answer \in PrimaryAnswers(configs[i].databaseId, PrimaryPageSize) :
          PrimaryResolve(i, answer)

EnumerationQuerySettles == FallbackReject \/ FallbackResolve

QueriesSettle ==
  /\ WF_vars(ConfigQuerySettles)
  /\ WF_vars(AfterLoad)
  /\ \A i \in 1..MaxConfigs : WF_vars(TitleQuerySettles(i))
  /\ WF_vars(EnumerationQuerySettles)

SpecLive == Init /\ [][Next]_vars /\ QueriesSettle

(***************************************************************************)
(* Successive calls of searchKnowledge on one NotionRagService.  The       *)
(* service keeps no field between calls (its only fields are the client    *)
(* and the identifier of the configuration store, 143-148); history notes  *)
(* what the call that returned last had queried.                           *)
(***************************************************************************)
\* The knowledge sources the call has queried.
SourcesQueried == {requests[k].db : k \in {n \in 1..Len(requests) : requests[n].kind # "config"}}

ReturnRecorded ==
  /\ pc \in {"done", "failed"}
  /\ history' = [calls |-> 1, sources |-> SourcesQueried]
  /\ pc' = "idle"
  /\ query' = <<>>
  /\ cfgResponse' = NoResponse
  /\ loadResult' = NoLoadResult
  /\ configs' = <<>>
  /\ primState' = <<>>
  /\ primResp' = <<>>
  /\ arrival' = <<>>
  /\ keywords' = <<>>
  /\ fbIndex' = 0
  /\ fbState' = <<>>
  /\ allMatchedPages' = <<>>
  /\ requests' = <<>>
  /\ outcome' = "none"
  /\ results' = <<>>
  /\ error' = <<>>
  /\ UNCHANGED <<helperVars, agentVars, ttsVars>>

NextCalls ==
  \/ \E q \in Queries : Start(q)
  \/ \E resp \in ConfigResponses : LoadResolve(resp)
  \/ LoadReject
  \/ AfterLoad
  \/ \E i \in 1..Len(primState) :
       \E answer \in PrimaryAnswers(configs[i].databaseId, PrimaryPageSize) :
         PrimaryResolve(i, answer)
  \/ \E i \in 1..Len(primState) : PrimaryReject(i)
  \/ FallbackResolve
  \/ FallbackReject
  \/ ReturnRecorded

SpecCalls == Init /\ [][NextCalls]_vars

(***************************************************************************)
(* Properties of the retrieval orchestrator.                               *)
(***************************************************************************)

\* An enumeration query has been issued in this call.
FallbackInvoked == \E k \in 1..Len(requests) : requests[k].kind = "all"

\* A knowledge-source query (title or enumeration) has been issued.
SourceQueried ==
  \E k \in 1..Len(requests) : requests[k].kind \in {"title", "all"}

\* Every character of the query is 7-bit ASCII.
PureAscii(q) == \A i \in 1..Len(q) : q[i] \in 0..127

\* Every title query has answered, and every answer is empty.
PrimaryAllEmpty ==
  /\ Len(primState) = Len(configs)
  /\ \A i \in 1..Len(configs) : primState[i] = "ok" /\ Len(primResp[i]) = 0

\* The enumeration requests issued so far, in order.
AllRequests == SelectSeq(requests, LAMBDA r : r.kind = "all")

\* C1: the Fallback Scanner is invoked only if every primary query returned
\* zero results and the query has a character outside 7-bit ASCII; a call
\* that ends without these never issued an enumeration query.
C1_FallbackOnlyEmptyNonAscii ==
  FallbackInvoked => (~PureAscii(query) /\ PrimaryAllEmpty)

\* A pure-ASCII query whose primary queries all returned nothing has
\* returned without the Fallback Scanner.
C1_Witness ==
  /\ pc = "done"
  /\ configs # <<>>
  /\ PureAscii(query)
  /\ PrimaryAllEmpty
  /\ ~FallbackInvoked

\* C2: for a non-ASCII query and a non-empty registry, once every primary
\* query has succeeded with an empty result the Fallback Scanner is running
\* or has run, each source is sent one enumeration query in registry order,
\* and the returned results are the scanner's output.
C2_EmptyNonAsciiRunsFallback ==
  (~PureAscii(query) /\ configs # <<>> /\ PrimaryAllEmpty) =>
    /\ pc \in {"fallback", "done"}
    /\ FallbackInvoked
    /\ Len(AllRequests) = (IF pc = "done" THEN Len(configs) ELSE Len(fbState) + 1)
    /\ \A k \in 1..Len(AllRequests) : AllRequests[k].db = configs[k].databaseId
    /\ pc = "done" => (outcome = "ok" /\ results = allMatchedPages)

\* A non-ASCII query with an empty primary result has returned records that
\* the Fallback Scanner accepted.
C2_Witness ==
  /\ pc = "done"
  /\ ~PureAscii(query)
  /\ PrimaryAllEmpty
  /\ FallbackInvoked
  /\ results # <<>>

\* C3: when the loader returns an empty sequence, search returns
\* {query, results: []} as a success in its next step and issues no
\* knowledge-source query; and no such query is ever issued with an empty
\* registry.
C3_EmptyRegistryReturnsAtOnce ==
  [][ /\ (pc = "loaded" /\ loadResult.kind = "ok" /\ loadResult.configs = <<>>) =>
          /\ pc' = "done"
          /\ outcome' = "ok"
          /\ results' = <<>>
          /\ query' = query
          /\ requests' = requests
      /\ (configs' = <<>>) => ~SourceQueried' ]_vars

\* A non-ASCII query against an empty registry has returned the empty
\* result with only the configuration-store query issued.
C3_Witness ==
  /\ pc = "done"
  /\ outcome = "ok"
  /\ configs = <<>>
  /\ ~PureAscii(query)
  /\ results = <<>>
  /\ requests = <<ConfigRequest>>

\* C4: once the title query of any source has failed the call has failed
\* with an error, returns no results, and no enumeration query is issued.
C4_PrimaryFailureFailsCall ==
  (\E i \in 1..Len(primState) : primState[i] = "failed") =>
    /\ pc = "failed"
    /\ outcome = "error"
    /\ error # <<>>
    /\ results = <<>>
    /\ ~FallbackInvoked

\* One source failed after another had already answered with hits.
C4_Witness ==
  /\ pc = "failed"
  /\ \E i \in 1..Len(primState) : primState[i] = "failed"
  /\ \E j \in 1..Len(primState) : primState[j] = "ok" /\ Len(primResp[j]) > 0

(***************************************************************************)
(* Properties of the Fallback Scanner and the Primary Query Executor.      *)
(***************************************************************************)

IsPrefix(s, t) == Len(s) <= Len(t) /\ SubSeq(t, 1, Len(s)) = s

\* The k-th smallest member of a finite set of numbers.
NthSmallest(S, k) == CHOOSE x \in S : Cardinality({y \in S : y < x}) = k - 1

\* The members of S in increasing order.
Ascending(S) == [k \in 1..Cardinality(S) |-> NthSmallest(S, k)]

\* C5: a failed enumeration query never fails the call: every step of the
\* scanner keeps the records accepted so far and either queries the next
\* source in registry order or returns successfully what was accepted, after
\* every source has been asked; if every source failed that is the empty
\* result.
C5_FallbackFailureAbsorbed ==
  [][ pc = "fallback" =>
        /\ pc' \in {"fallback", "done"}
        /\ IsPrefix(allMatchedPages, allMatchedPages')
        /\ Len(fbState') = Len(fbState) + 1
        /\ pc' = "fallback" =>
             /\ Len(fbState') < Len(configs)
             /\ Last(requests') = AllRequest(configs[Len(fbState') + 1])
        /\ pc' = "done" =>
             /\ outcome' = "ok"
             /\ error' = <<>>
             /\ Len(fbState') = Len(configs)
             /\ results' = allMatchedPages'
             /\ (\A i \in 1..Len(fbState') : fbState'[i] = "failed")
                  => results' = <<>> ]_vars

\* The first source failed, the second was still scanned and its accepted
\* records were returned.
C5_Witness ==
  /\ pc = "done"
  /\ outcome = "ok"
  /\ Len(fbState) = 2
  /\ fbState[1] = "failed"
  /\ fbState[2] = "ok"
  /\ results # <<>>

\* a and b joined by a newline, or the non-empty one of them.
Glue(a, b) ==
  IF a = <<>> THEN b ELSE IF b = <<>> THEN a ELSE a \o <<10>> \o b

\* The composite text of a normalized record.
CompositeText(r) ==
  Glue(Glue(Glue(r.databaseName, r.usageHint), r.title), r.content)

\* needle occurs in text at some offset.
OccursIn(needle, text) ==
  \E off \in 0..(Len(text) - Len(needle)) :
    \A k \in 1..Len(needle) : text[off + k] = needle[k]

\* Some keyword, lower-cased, occurs in the lower-cased text.
SomeKeywordIn(kws, text) ==
  \E k \in 1..Len(kws) : OccursIn(toLowerCase(kws[k]), toLowerCase(text))

\* The records of source i the scanner must accept: the well-formed records
\* among the first FallbackPageSize of the source whose composite text holds
\* a keyword, in enumeration order.
ExpectedFromSource(i, kws) ==
  LET db   == Database(configs[i].databaseId)
      Norm(j) == mapNotionPageToSearchResult(db[j], configs[i])
      hits == { j \in 1..Min(FallbackPageSize, Len(db)) :
                  db[j].hasProps /\ SomeKeywordIn(kws, CompositeText(Norm(j))) }
      idx  == Ascending(hits)
  IN  [k \in 1..Len(idx) |-> Norm(idx[k])]

ExpectedFallback(kws) ==
  FlattenSeq([i \in 1..Len(fbState) |->
    IF fbState[i] = "ok" THEN ExpectedFromSource(i, kws) ELSE <<>>])

\* C6: what the Fallback Scanner has accepted is exactly, over the sources
\* answered so far in registry order and within a source in enumeration
\* order over its single page, the normalized records whose composite text
\* (non-empty members of source name, usage hint, title, content joined by
\* newline) holds a lower-cased keyword; the returned results are that
\* sequence.
C6_FallbackOutputExact ==
  (pc \in {"fallback", "done"} /\ FallbackInvoked) =>
    /\ allMatchedPages = ExpectedFallback(extractKeywords(query))
    /\ pc = "done" => results = allMatchedPages

\* A returned record has no keyword in its title or content and was
\* accepted through its source's display name.
C6_Witness ==
  /\ pc = "done"
  /\ FallbackInvoked
  /\ \E n \in 1..Len(results) :
       /\ ~SomeKeywordIn(keywords, results[n].title)
       /\ ~SomeKeywordIn(keywords, results[n].content)
       /\ SomeKeywordIn(keywords, results[n].databaseName)

RECURSIVE HitsBefore(_)
\* The number of hits of the sources before source i.
HitsBefore(i) == IF i <= 1 THEN 0 ELSE HitsBefore(i - 1) + Len(primResp[i - 1])

\* The title requests issued so far, in order.
TitleRequests == SelectSeq(requests, LAMBDA r : r.kind = "title")

\* C7: one title query per source is issued, in registry order, each asking
\* for at most 5 hits; when all have succeeded and the call returns the
\* primary result, it is the per-source hit lists, normalized, concatenated
\* in registry order and each in the order the source returned it, whatever
\* the order in which the queries completed.
C7_PrimaryConcatInRegistryOrder ==
  /\ configs # <<>> =>
       /\ Len(TitleRequests) = Len(configs)
       /\ \A i \in 1..Len(configs) :
            /\ TitleRequests[i] =
                 [kind |-> "title", db |-> configs[i].databaseId, page_size |-> 5]
            /\ Len(primResp[i]) <= 5
  /\ (pc = "done" /\ configs # <<>> /\ ~FallbackInvoked) =>
       /\ \A i \in 1..Len(configs) : primState[i] = "ok"
       /\ Len(results) = HitsBefore(Len(configs) + 1)
       /\ \A i \in 1..Len(configs) : \A j \in 1..Len(primResp[i]) :
            results[HitsBefore(i) + j] =
              mapNotionPageToSearchResult(primResp[i][j], configs[i])

\* Two different sources answered with hits, the second one first and with
\* a full page of 5, and the primary result was returned.
C7_Witness ==
  /\ pc = "done"
  /\ ~FallbackInvoked
  /\ arrival = <<2, 1>>
  /\ configs[1] # configs[2]
  /\ Len(primResp[1]) > 0
  /\ Len(primResp[2]) = PrimaryPageSize

(***************************************************************************)
(* Properties of the Source Registry Loader.                               *)
(***************************************************************************)

\* The largest index of character c in s, or 0.
LastIndexOf(s, c) ==
  IF \E i \in 1..Len(s) : s[i] = c
  THEN CHOOSE i \in 1..Len(s) : s[i] = c /\ \A k \in (i + 1)..Len(s) : s[k] # c
  ELSE 0

\* The smallest index of character c in s, or Len(s) + 1.
FirstIndexOf(s, c) ==
  IF \E i \in 1..Len(s) : s[i] = c
  THEN CHOOSE i \in 1..Len(s) : s[i] = c /\ \A k \in 1..(i - 1) : s[k] # c
  ELSE Len(s) + 1

\* The segment after the last '/', cut at its first '?', then the part
\* after its last '-'.
LocatorCandidate(url) ==
  LET segment == SubSeq(url, LastIndexOf(url, 47) + 1, Len(url))
      noQuery == SubSeq(segment, 1, FirstIndexOf(segment, 63) - 1)
  IN  SubSeq(noQuery, LastIndexOf(noQuery, 45) + 1, Len(noQuery))

HexCodes == (48..57) \cup (97..102) \cup (65..70)

\* Exactly 32 hexadecimal characters.
IsIdentifier(s) == Len(s) = 32 /\ \A i \in 1..Len(s) : s[i] \in HexCodes

\* The record passes both checks of the loader.
Qualifies(rec) ==
  rec.hasProps /\ rec.enabled = TRUE /\ IsIdentifier(LocatorCandidate(rec.url))

DescriptorOf(rec) ==
  [ databaseId   |-> LocatorCandidate(rec.url),
    databaseName |-> ConfigName(rec),
    usageHint    |-> FlattenSeq(rec.usageHint) ]

\* One descriptor per qualifying record, in configuration-store order.
ExpectedConfigs(recs) ==
  LET idx == Ascending({ n \in 1..Len(recs) : Qualifies(recs[n]) })
  IN  [k \in 1..Len(idx) |-> DescriptorOf(recs[idx[k]])]

C9_LocatorAcceptedIffHex32 ==
  /\ extractDatabaseIdFromUrl(UrlA) = IdA
  /\ urlOut.done =>
       LET candidate == LocatorCandidate(urlIn)
       IN  IF IsIdentifier(candidate)
           THEN /\ urlOut.value.id = candidate
                /\ Len(urlOut.value.configs) = 1
                /\ urlOut.value.configs[1].databaseId = candidate
           ELSE /\ urlOut.value.id = NoId
                /\ urlOut.value.configs = <<>>

\* The locator of the example has been resolved to its identifier.
C9_Witness ==
  /\ urlOut.done
  /\ urlIn = UrlA
  /\ urlOut.value.id = IdA
  /\ Len(urlOut.value.configs) = 1

(***************************************************************************)
(* Properties of the Keyword Extractor.                                    *)
(***************************************************************************)

\* The positions where a maximal separator-free token of q starts.
TokenStarts(q) ==
  { i \in 1..Len(q) : ~IsSeparator(q[i]) /\ (i = 1 \/ IsSeparator(q[i - 1])) }

\* The position where the token starting at i ends.
TokenEnd(q, i) ==
  CHOOSE j \in i..Len(q) :
    /\ \A k \in i..j : ~IsSeparator(q[k])
    /\ j = Len(q) \/ IsSeparator(q[j + 1])

TokenAt(q, i) == SubSeq(q, i, TokenEnd(q, i))

\* The tokens of length >= 2 outside the exclusion set, left to right.
QualifyingTokens(q) ==
  LET idx == Ascending({ i \in TokenStarts(q) :
                           Len(TokenAt(q, i)) >= 2 /\ TokenAt(q, i) \notin excludeWords })
  IN  [k \in 1..Len(idx) |-> TokenAt(q, idx[k])]

\* C10: extractKeywords returns, in left-to-right order of occurrence,
\* exactly the maximal separator-free tokens of the query that have length
\* >= 2 and are not in the exclusion set, repeated tokens included, and the
\* empty list when no token qualifies.
C10_KeywordsAreQualifyingTokens ==
  kwOut.done => kwOut.value = QualifyingTokens(kwIn)

\* A query with the same token twice gave that keyword twice.
C10_Witness ==
  /\ kwOut.done
  /\ Len(kwOut.value) = 2
  /\ kwOut.value[1] = kwOut.value[2]

(***************************************************************************)
(* Properties of the Keyword Extractor on the documented examples.         *)
(***************************************************************************)

Osusume == <<12362, 12377, 12377, 12417>>   \* おすすめ

C12_DocumentedExamples ==
  kwOut.done =>
    \A e \in DocumentedExamples : kwIn = e.query => kwOut.value = e.keywords

(***************************************************************************)
(* Properties of the Record Normalizer.                                    *)
(***************************************************************************)

\* The positions of the title fields of a page, and the text of field i.
TitleFields(page) == {i \in 1..Len(page.props) : page.props[i].type = "title"}

TextBearing == {"title", "rich_text", "url", "select"}

FieldText(prop) ==
  IF prop.type \in TextBearing THEN FlattenSeq(prop.texts)
  ELSE IF prop.type = "multi_select" THEN JoinWith(prop.texts, <<32>>)
  ELSE <<>>

Normalized == normOut.done /\ normIn.page.hasProps

\* C13: for every record with a properties container and every source
\* descriptor the normalizer returns a result without throwing; its title is
\* never empty: it is the text of the title field, or "(no title)" when the
\* record has no title field or the title field has no text.
C13_TitleNeverEmpty ==
  Normalized =>
    LET page == normIn.page
        r    == normOut.value.result
    IN  /\ ~normOut.value.threw
        /\ r.title # <<>>
        /\ \A i \in TitleFields(page) :
             r.title = IF FieldText(page.props[i]) = <<>> THEN NoTitle
                       ELSE FieldText(page.props[i])
        /\ TitleFields(page) = {} => r.title = NoTitle
        /\ r.databaseId = normIn.config.databaseId
        /\ r.pageId = page.id

C13_Witness ==
  /\ Normalized
  /\ \E i \in TitleFields(normIn.page) :
       /\ i > 1
       /\ FieldText(normIn.page.props[i]) = <<>>
  /\ normOut.value.result.title = NoTitle
  /\ normOut.value.result.content # <<>>

\* The trimmed, non-empty texts of the fields at the given positions, in
\* position order.
TextsAt(page, positions) ==
  LET IsAt(i) == i \in positions /\ trim(FieldText(page.props[i])) # <<>>
      kept   == SelectSeq([i \in 1..Len(page.props) |-> i], IsAt)
  IN  [k \in 1..Len(kept) |-> trim(FieldText(page.props[kept[k]]))]

Range(f) == {f[i] : i \in DOMAIN f}

\* The composite texts of the well-formed records of the source under test.
AccCompositeTexts ==
  LET src == AccSources[accIn.source]
  IN  { CompositeText(mapNotionPageToSearchResult(src.pages[j], src.config)) :
          j \in {k \in 1..Len(src.pages) : src.pages[k].hasProps} }

\* C15: for fixed source contents, every record accepted for a keyword list
\* is accepted, in the same relative order, for the list with keywords
\* added; and when no added keyword occurs in any composite text the
\* accepted records are the same.
C15_AcceptanceMonotonic ==
  accOut.done =>
    LET before == accOut.value.before
        after  == accOut.value.after
        WasAccepted(r) == r \in Range(before)
    IN  /\ Range(before) \subseteq Range(after)
        /\ before = SelectSeq(after, WasAccepted)
        /\ (\A t \in AccCompositeTexts : ~SomeKeywordIn(accIn.added, t))
             => after = before

\* A keyword is added to a list that accepted a record, the added keyword
\* misses that record and hits another one, which is accepted in addition.
C15_Witness ==
  /\ accOut.done
  /\ accIn.base # <<>>
  /\ accIn.added # <<>>
  /\ accOut.value.before # <<>>
  /\ Len(accOut.value.after) > Len(accOut.value.before)
  /\ \E r \in Range(accOut.value.before) :
       ~SomeKeywordIn(accIn.added, CompositeText(r))

(***************************************************************************)
(* Idempotence of the Keyword Extractor.                                   *)
(***************************************************************************)

\* C16: for every query q, every keyword that extractKeywords returns for
\* the space-joined list extractKeywords(q) is a member of extractKeywords(q).
C16_ReExtractionYieldsSubset ==
  kwAgain.done => Range(kwAgain.value) \subseteq Range(kwOut.value)

\* Two keywords were extracted, joined and extracted again.
C16_Witness ==
  /\ kwAgain.done
  /\ Len(kwOut.value) >= 2
  /\ kwOut.value[1] # kwOut.value[2]
  /\ kwAgain.value = kwOut.value

(***************************************************************************)
(* Error handling of searchKnowledge.                                      *)
(***************************************************************************)

\* The call failed after the configuration-store query failed / after a
\* title query failed.
RegistryLoadFailed == pc = "failed" /\ primState = <<>>

PrimaryQueryFailed ==
  pc = "failed" /\ \E i \in 1..Len(primState) : primState[i] = "failed"

\* C17: a record without the properties container is never fatal: a search
\* call fails only when the configuration-store query or a title query
\* failed, never because of a malformed record among the answers.
C17_MalformedRecordNeverFatal ==
  pc = "failed" => (RegistryLoadFailed \/ PrimaryQueryFailed)

\* C18 as stated: the error of a failed registry load or title query reaches
\* the caller unchanged, as the error raised at the point of failure.
C18_FatalErrorUnchanged ==
  /\ RegistryLoadFailed => error = <<"E_config">>
  /\ PrimaryQueryFailed => error = <<"E_title">>

\* C18 amended: the caller receives one new error whose message is the
\* message of the error raised at the point of failure behind the prefixes
\* added on the way: the orchestrator's prefix, and inside it the loader's
\* prefix when the registry load failed.
C18_FatalErrorPrefixed ==
  /\ RegistryLoadFailed =>
       /\ error = <<"SearchFailed", "ConfigLoadFailed", "E_config">>
       /\ outcome = "error"
  /\ PrimaryQueryFailed =>
       /\ error = <<"SearchFailed", "E_title">>
       /\ outcome = "error"

\* The registry load failed and the call has thrown.
C18_Witness ==
  /\ RegistryLoadFailed
  /\ Len(error) = 3
  /\ requests = <<ConfigRequest>>

(***************************************************************************)
(* Properties of the route POST /search_knowledge.                         *)
(***************************************************************************)

\* The query is a string with a character that is not white space.
HasText(q) ==
  q.type = "string" /\ \E i \in 1..Len(q.value) : q.value[i] \notin WhiteSpace

\* The characters of s from its first to its last non-white-space one.
Core(s) ==
  LET solid == {i \in 1..Len(s) : s[i] \notin WhiteSpace}
  IN  IF solid = {} THEN <<>>
      ELSE SubSeq(s, CHOOSE i \in solid : \A j \in solid : i <= j,
                     CHOOSE i \in solid : \A j \in solid : j <= i)

\* C19: a request whose query is missing, not a string, or empty after
\* trimming is answered 400 without a call of the core; any other request
\* makes exactly one call of the core, with the trimmed query, and is
\* answered 200 when the call succeeds and 500 when it fails; no call of the
\* core has an empty or white-space-only query.
C19_RouteValidatesThenCallsOnce ==
  routePc # "idle" =>
    /\ ~HasText(routeBody) =>
         /\ coreCalls = <<>>
         /\ routePc = "responded"
         /\ routeResponse.status = 400
    /\ HasText(routeBody) =>
         /\ Len(coreCalls) = 1
         /\ coreCalls[1].query = Core(routeBody.value)
         /\ coreCalls[1].query # <<>>
         /\ routePc = "awaiting" <=> coreCalls[1].outcome = "pending"
         /\ routePc = "responded" =>
              routeResponse.status =
                IF coreCalls[1].outcome = "ok" THEN 200 ELSE 500

\* A query with white space around its text was answered 200 after one call.
C19_Witness ==
  /\ routePc = "responded"
  /\ routeResponse.status = 200
  /\ Len(coreCalls) = 1
  /\ coreCalls[1].query # routeBody.value

(***************************************************************************)
(* Properties of the context rendering of runAgent.                        *)
(***************************************************************************)

\* The offsets at which needle occurs in text.
Offsets(needle, text) ==
  { off \in 0..(Len(text) - Len(needle)) :
      \A k \in 1..Len(needle) : text[off + k] = needle[k] }

\* The heading line of the block a result gets at position i of its list.
DocHeadline(i) ==
  <<35, 35, 32, 68, 111, 99>> \o Digits(i) \o <<58, 32>>
    \o ctxIn.notion[i].title \o <<10>>

WebHeadline(i) ==
  <<35, 35, 32, 87, 101, 98>> \o Digits(i) \o <<58, 32>>
    \o ctxIn.web[i].title \o <<10>>

Rendered == ctxOut.done /\ ctxOut.value.kind = "prompt"

\* C20: the rendered context holds one block for each of the first 10
\* knowledge results and one for each of the first 10 web results, numbered
\* and placed in the order of their lists, nothing of a later result, and
\* every knowledge block ahead of every web block.
C20_FirstTenEachKnowledgeFirst ==
  Rendered =>
    LET text  == ctxOut.value.prompt
        docs  == 1..Len(ctxIn.notion)
        webs  == 1..Len(ctxIn.web)
        DocAt(i) == Offsets(DocHeadline(i), text)
        WebAt(i) == Offsets(WebHeadline(i), text)
    IN  /\ \A i \in docs :
             IF i <= 10 THEN Cardinality(DocAt(i)) = 1
             ELSE Offsets(ctxIn.notion[i].title, text) = {}
        /\ \A i \in webs :
             IF i <= 10 THEN Cardinality(WebAt(i)) = 1
             ELSE Offsets(ctxIn.web[i].title, text) = {}
        /\ \A i, j \in docs :
             (i < j /\ j <= 10) =>
               \A a \in DocAt(i), b \in DocAt(j) : a < b
        /\ \A i, j \in webs :
             (i < j /\ j <= 10) =>
               \A a \in WebAt(i), b \in WebAt(j) : a < b
        /\ \A i \in docs, j \in webs :
             (i <= 10 /\ j <= 10) =>
               \A a \in DocAt(i), b \in WebAt(j) : a < b

\* Eleven knowledge results and eleven web results were given.
C20_Witness ==
  /\ Rendered
  /\ Len(ctxIn.notion) > 10
  /\ Len(ctxIn.web) > 10
  /\ Offsets(DocHeadline(10), ctxOut.value.prompt) # {}
  /\ Offsets(WebHeadline(10), ctxOut.value.prompt) # {}

\* "\nURL: ", the line that follows the body of a block.
UrlLine == <<10, 85, 82, 76, 58, 32>>

\* The body of the block whose heading line is headline: the text between
\* the heading line and the next "\nURL: ".
BodyAfter(headline, text) ==
  LET start == (CHOOSE a \in Offsets(headline, text) : TRUE) + Len(headline)
      ends  == {b \in Offsets(UrlLine, text) : b >= start}
      stop  == CHOOSE b \in ends : \A c \in ends : b <= c
  IN  SubSeq(text, start + 1, stop)

\* C21 as stated: the body of every rendered block is at most 200
\* characters long, and a content or snippet of at most 200 characters is
\* rendered unchanged.
C21_BodyAtMostCap ==
  Rendered =>
    LET text == ctxOut.value.prompt
    IN  /\ \A i \in 1..Min(10, Len(ctxIn.notion)) :
             LET body == BodyAfter(DocHeadline(i), text)
             IN  /\ Len(body) <= 200
                 /\ Len(ctxIn.notion[i].content) <= 200
                      => body = ctxIn.notion[i].content
        /\ \A i \in 1..Min(10, Len(ctxIn.web)) :
             LET body == BodyAfter(WebHeadline(i), text)
             IN  /\ Len(body) <= 200
                 /\ Len(ctxIn.web[i].snippet) <= 200
                      => body = ctxIn.web[i].snippet

\* What a body of the given text must be: the text itself up to 200
\* characters, otherwise its first 200 characters followed by "...".
CappedBody(t) ==
  IF Len(t) <= 200 THEN t
  ELSE [k \in 1..203 |-> IF k <= 200 THEN t[k] ELSE 46]

\* C21 amended: a content or snippet of at most 200 characters is rendered
\* unchanged; a longer one is rendered as its first 200 characters followed
\* by the three characters "...", so the body of a block is at most 203
\* characters long.
C21_BodyCutWithEllipsis ==
  Rendered =>
    LET text == ctxOut.value.prompt
    IN  /\ \A i \in 1..Min(10, Len(ctxIn.notion)) :
             BodyAfter(DocHeadline(i), text) = CappedBody(ctxIn.notion[i].content)
        /\ \A i \in 1..Min(10, Len(ctxIn.web)) :
             BodyAfter(WebHeadline(i), text) = CappedBody(ctxIn.web[i].snippet)

\* A content of 200 characters and one of 201 characters were rendered.
C21_Witness ==
  /\ Rendered
  /\ Len(ctxIn.notion) >= 2
  /\ Len(ctxIn.notion[1].content) = 200
  /\ Len(ctxIn.notion[2].content) = 201
  /\ Len(BodyAfter(DocHeadline(2), ctxOut.value.prompt)) = 203

\* The enumeration queries of the call issued so far, and those of them
\* that have neither answered nor failed yet.
FallbackIssued == Len(SelectSeq(requests, LAMBDA r : r.kind = "all"))

FallbackInFlight == FallbackIssued - Len(fbState)

\* C22 as stated: the fallback issues the enumeration queries of all sources
\* concurrently, so while the fallback runs every source has had its query
\* issued whether or not an earlier one has answered.
C22_FallbackQueriesConcurrent ==
  pc = "fallback" => FallbackIssued = Len(configs)

\* C22 amended: the fallback issues the enumeration queries one after
\* another; while it runs exactly one is in flight, that of the source the
\* loop is at, and every query issued before it has answered or failed.
C22_FallbackQueriesOneAtATime ==
  /\ FallbackInFlight = (IF pc = "fallback" THEN 1 ELSE 0)
  /\ pc = "fallback" =>
        /\ FallbackIssued = fbIndex
        /\ Len(fbState) = fbIndex - 1

\* The query of the second source is in flight after that of the first has
\* answered.
C22_Witness ==
  /\ pc = "fallback"
  /\ Len(configs) >= 2
  /\ fbIndex = 2
  /\ fbState = <<"ok">>
  /\ FallbackInFlight = 1

\* The title queries of the call that have neither answered nor failed.
PrimaryInFlight == {i \in 1..Len(primState) : primState[i] = "inflight"}

\* The orchestrator has taken its decision after the primary fan-out: it
\* has started the fallback or returned a result set of a non-empty registry.
PrimaryDecided ==
  \/ FallbackIssued > 0
  \/ pc = "fallback"
  \/ pc = "done" /\ configs # <<>>

\* C23: the decision after the primary fan-out (return the primary results
\* or start the fallback) is taken only when every title query of the call
\* has answered successfully: no enumeration query is issued while a title
\* query is in flight or after one has failed.
C23_JoinBarrier ==
  PrimaryDecided =>
    /\ PrimaryInFlight = {}
    /\ \A i \in 1..Len(primState) : primState[i] = "ok"
    /\ Len(primState) = Len(configs)

\* The fallback has started after two title queries answered, the second
\* source first.
C23_Witness ==
  /\ pc = "fallback"
  /\ FallbackIssued = 1
  /\ Len(configs) = 2
  /\ arrival = <<2, 1>>
  /\ primState = <<"ok", "ok">>

ConfigRequests == SelectSeq(requests, LAMBDA r : r.kind = "config")

\* C24: within one call the configuration store is queried at most once and
\* each source of the registry, taken in registry order, receives at most
\* one title query and at most one enumeration query, whether the queries
\* succeed or fail: the queries of either kind issued so far are those of
\* the first sources of the registry, one each.
C24_NoRetries ==
  /\ Len(ConfigRequests) <= 1
  /\ IsPrefix(TitleRequests, [i \in 1..Len(configs) |-> TitleRequest(configs[i])])
  /\ IsPrefix(AllRequests, [i \in 1..Len(configs) |-> AllRequest(configs[i])])

\* The call has ended after the enumeration query of the first of two
\* different sources failed: three kinds of query, one per source each.
C24_Witness ==
  /\ pc = "done"
  /\ Len(configs) = 2
  /\ configs[1].databaseId # configs[2].databaseId
  /\ fbState = <<"failed", "ok">>
  /\ Len(ConfigRequests) = 1
  /\ Len(TitleRequests) = 2
  /\ Len(AllRequests) = 2

\* The descriptors of the sources of a list of configs.
SourceIds(cfgs) == {cfgs[i].databaseId : i \in 1..Len(cfgs)}

\* C25, within a call: the configuration store is queried first, before any
\* knowledge source, in every call; the registry the loader returns is the
\* one built from this call's own answer; and the sources queried are
\* sources of that registry, all of them once the title queries are out.
C25_CallState ==
  /\ pc # "idle" => requests # <<>> /\ requests[1] = ConfigRequest
  /\ pc = "loaded" /\ cfgResponse.kind = "ok" =>
        /\ loadResult.configs = ExpectedConfigs(cfgResponse.results)
        /\ SourcesQueried = {}
  /\ SourcesQueried \subseteq SourceIds(configs)
  /\ pc \in {"primary", "fallback"} => SourcesQueried = SourceIds(configs)

\* C25, from the registry to the queries: the sources the call goes on to
\* query are those of the registry the loader has just returned, whatever
\* an earlier call queried.
C25_CallStep ==
  pc = "loaded" =>
    /\ pc' = "primary" =>
          /\ configs' = loadResult.configs
          /\ SourcesQueried' = SourceIds(loadResult.configs)
    /\ pc' # "primary" =>
          /\ SourcesQueried' = {}
          /\ loadResult.kind = "error" \/ loadResult.configs = <<>>

\* C25: the registry is fetched anew in every call and never cached: each
\* call queries the configuration store before any knowledge source, and
\* the sources it queries are exactly the descriptors obtained from its own
\* registry answer, independent of earlier calls.
C25_RegistryFetchedEveryCall == [](C25_CallState) /\ [][C25_CallStep]_vars

\* A later call queries a source the call before it did not query (the
\* source has been added or enabled in between), and one that queries fewer.
C25_Witness ==
  /\ history.calls = 1
  /\ pc = "primary"
  /\ SourcesQueried = {IdA, IdB}
  /\ history.sources = {IdA}

\* A later call does not query a source the call before it queried.
C25_WitnessDisabled ==
  /\ history.calls = 1
  /\ pc = "primary"
  /\ SourcesQueried = {IdB}
  /\ history.sources = {IdA, IdB}

\* The call is under way: entered and not yet returned or thrown.
CallRunning == pc \in {"loading", "loaded", "primary", "fallback"}

CallCompleted == pc \in {"done", "failed"}

\* A query the call has issued is still unanswered.
QueryPending ==
  \/ pc = "loading"
  \/ pc = "primary" /\ PrimaryInFlight # {}
  \/ pc = "fallback" /\ FallbackInFlight > 0

\* C26: every call completes, with a result set or an error, provided that
\* every query it issues is answered with success or failure in the end;
\* and a call that is under way is never stuck of its own: it waits for a
\* query it has issued or is about to go on from the loader's return.
C26_CallCompletes ==
  /\ [](CallRunning => (QueryPending \/ pc = "loaded"))
  /\ (CallRunning ~> CallCompleted)

\* A call over two sources has completed after the enumeration queries of
\* both failed.
C26_Witness ==
  /\ pc = "done"
  /\ outcome = "ok"
  /\ Len(configs) = 2
  /\ fbState = <<"failed", "failed">>

(***************************************************************************)
(* Properties of runAgent.                                                 *)
(***************************************************************************)

CallOf(name) == IF name = "notion" THEN notionCall ELSE webCall

\* The error of the search that failed first.
FirstSearchError ==
  LET failed == {k \in 1..Len(settled) : CallOf(settled[k]).state = "failed"}
      first  == CHOOSE k \in failed : \A j \in failed : k <= j
  IN  CallOf(settled[first]).error

\* C27: in default mode both searches are issued together, with the same
\* query, and a failure of either fails runAgent with that error (the
\* first, if both fail): callLlm is never called and no answer is returned,
\* whatever the other search answered.  In notion-only mode the web search
\* is never called and in web-only mode the knowledge-source search is
\* never called.
C27_SearchFailureFailsAgent ==
  agentPc # "idle" =>
    /\ EffectiveMode(mode) = "default" =>
          /\ notionCall.state # "none" /\ notionCall.query = searchQuery
          /\ webCall.state # "none" /\ webCall.query = searchQuery
    /\ EffectiveMode(mode) = "notion-only" =>
          notionCall.state # "none" /\ webCall = NoCall
    /\ EffectiveMode(mode) = "web-only" =>
          webCall.state # "none" /\ notionCall = NoCall
    /\ (notionCall.state = "failed" \/ webCall.state = "failed") =>
          /\ agentPc = "thrown"
          /\ llmCalls = <<>>
          /\ agentResult =
               [kind |-> "error", answer |-> <<>>, error |-> FirstSearchError]

\* In default mode the web search answered with a result, then the
\* knowledge-source search of a query its route accepts failed.
C27_Witness ==
  /\ agentPc = "thrown"
  /\ mode = "default"
  /\ settled = <<"web", "notion">>
  /\ webCall.state = "ok" /\ Len(webCall.results) = 1
  /\ notionCall.state = "failed"
  /\ agentResult.error = "NotionHttp500"

\* C28: when both result lists are empty runAgent returns the fixed
\* no-result message and callLlm is not called; otherwise callLlm is called
\* exactly once, with the prompt built from the two lists, and its text is
\* the answer.  callLlm is never called twice and never without a result.
C28_LlmOnlyWithResults ==
  /\ Len(llmCalls) <= 1
  /\ llmCalls # <<>> => (notionCall.results # <<>> \/ webCall.results # <<>>)
  /\ agentPc = "generating" => Len(llmCalls) = 1
  /\ agentPc = "returned" =>
        IF notionCall.results = <<>> /\ webCall.results = <<>>
        THEN /\ agentResult.answer = NoResultMessage
             /\ llmCalls = <<>>
        ELSE /\ llmCalls =
                  <<BuildPrompt(agentQuestion, notionCall.results,
                                webCall.results)>>
             /\ agentResult.answer \in LlmTexts

\* In default mode both searches answered with an empty list and runAgent
\* returned the no-result message.
C28_Witness ==
  /\ agentPc = "returned"
  /\ EffectiveMode(mode) = "default"
  /\ notionCall.state = "ok" /\ notionCall.results = <<>>
  /\ webCall.state = "ok" /\ webCall.results = <<>>
  /\ agentResult.answer = NoResultMessage
  /\ llmCalls = <<>>

\* C29 as stated: whenever runAgent is called with a question that is not
\* empty after trimming, the search query it derives and sends is not empty,
\* and no search route answers it with the 400 of an empty query.
C29_ValidQuestionGivesQuery ==
  (agentPc # "idle" /\ trim(agentQuestion) # <<>>) =>
    /\ searchQuery # <<>>
    /\ notionCall.state # "none" => NotionRouteAccepts(notionCall.query)
    /\ webCall.state # "none" => WebRouteAccepts(webCall.query)
    /\ agentResult.error \notin {"NotionHttp400", "WebHttp400"}

(***************************************************************************)
(* Properties of the speech bridge.                                        *)
(***************************************************************************)

\* C30: whatever the interleaving of concurrent /speak and /ask_and_speak
\* requests, what is played for a request is the speech of its own text,
\* written by the request itself: from a request's write of voice.wav to
\* its playback the file holds what the request wrote.
C30_PlaysOwnSpeech ==
  \A r \in Requests :
    /\ played[r] # NoFile =>
          /\ played[r] = [writer |-> r, speech |-> ttsText[r]]
          /\ ttsText[r] \in Texts
    /\ ttsPc[r] = "play" => voiceFile = [writer |-> r, speech |-> ttsText[r]]
    /\ ttsStatus[r] = 200 => played[r] # NoFile

\* Request 1, an /ask_and_speak, has written the file and is about to play
\* it while request 2, a /speak with another text, waits for its
\* synthesized audio.
C30_Witness ==
  /\ ttsPc[1] = "play"
  /\ ttsPc[2] = "synth.body"
  /\ ttsRoute[1] = "ask_and_speak"
  /\ ttsRoute[2] = "speak"
  /\ ttsText[1] # ttsText[2]
  /\ voiceFile.writer = 1

====
